---- MODULE Spec2Model ----
(***************************************************************************)
(* Model of googler's retrieval pipeline (src/ze/libs/googler.py).         *)
(*                                                                         *)
(* Part 1: GoogleConnection, the fetch client.  One GoogleConnection       *)
(* object serves a sequence of fetch_page calls.  The remote side is the   *)
(* environment: every GET either raises a transport exception or yields a  *)
(* response drawn from Responses; every connect either succeeds or fails.  *)
(* Spec lets the caller go on after an error; SpecUntilError stops at the  *)
(* first error, as googler's main() does.                                  *)
(***************************************************************************)
EXTENDS Integers, Sequences, FiniteSets, TLC

VARIABLES
    host,             \* GoogleConnection._host
    conn,             \* state of GoogleConnection._conn: "open" | "failed"
    unread,           \* _conn holds a response whose body was never read
    cookie,           \* GoogleConnection.cookie
    resp,             \* GoogleConnection._resp
    pc,               \* position inside fetch_page: "idle" between calls,
                      \* "done" when the call has returned or raised
    url,              \* argument of the running fetch_page call
    redirect_counter, \* local of fetch_page
    result,           \* outcome of the last fetch_page call
    hist,             \* history of the running call (network operations)
    lastGet,          \* history: the last GET request put on the wire
    lastHop,          \* argument of the last _redirect call
    seen,             \* history: first Set-Cookie header ever received
    google_url,       \* the GoogleUrl object (GooglerCmd._google_url)
    lastOp,           \* history: the last call made on the GoogleUrl object
    parser,           \* the GoogleParser object (GooglerCmd.fetch)
    page,             \* the page handed to GoogleParser.feed, as events, and
                      \* where its ignore-listed container lies
    fed,              \* how many events of page feed() has handled
    pruned,           \* a GoogleParser fed page without that container
    open,             \* history: the elements of the page that are open, each
                      \* with what the parser was when its start tag came
    session,          \* the GooglerCmd object: results, _autocorrected_to,
                      \* _results_filtered, _urltable
    lastFetch,        \* history: the last call of GooglerCmd.fetch
    made,             \* the last call of the Result constructor
    loop              \* GooglerCmd.cmdloop: where it is, and history: the
                      \* last command, what it raised, what it fetched

\* the variables of the fetch client
connVars == <<host, conn, unread, cookie, resp, pc, url, redirect_counter,
              result, hist, lastGet, lastHop, seen>>

\* the variables of the query state
urlVars == <<google_url, lastOp>>

\* the variables of the parser
parseVars == <<parser, page, fed, pruned, open>>

\* the variables of the session and of the objects made on their own
sessionVars == <<session, lastFetch, made, loop>>

\* what the fetch client never touches
beyondConn == <<urlVars, parseVars, sessionVars>>

\* what the query state never touches
beyondUrl == <<connVars, parseVars, sessionVars>>

\* what the parser never touches
beyondParse == <<connVars, urlVars, sessionVars>>

vars == <<connVars, urlVars, parseVars, sessionVars>>

-----------------------------------------------------------------------------
(* Python string primitives used by the fetch client.                      *)

RECURSIVE FindFrom(_, _, _)
\* str.find(sub, i): lowest 0-based index >= i where sub occurs, else -1
FindFrom(s, sub, i) ==
    IF i + Len(sub) > Len(s) THEN -1
    ELSE IF SubSeq(s, i + 1, i + Len(sub)) = sub THEN i
    ELSE FindFrom(s, sub, i + 1)

\* str.find(sub)
Find(s, sub) == FindFrom(s, sub, 0)

\* sub in s
Contains(s, sub) == Find(s, sub) >= 0

\* s[:k], with Python's treatment of negative and oversized k
SliceTo(s, k) ==
    LET n == Len(s)
        e == IF k < 0 THEN (IF n + k < 0 THEN 0 ELSE n + k)
             ELSE (IF k > n THEN n ELSE k)
    IN  SubSeq(s, 1, e)

\* s[k:] for k >= 0
SliceFrom(s, k) == SubSeq(s, k + 1, Len(s))

\* min of two find() results, -1 meaning "not found"
MinFound(a, b) ==
    IF a < 0 THEN b ELSE IF b < 0 THEN a ELSE IF a < b THEN a ELSE b

-----------------------------------------------------------------------------
(* urllib.parse.urlparse / urlunparse as _redirect uses them.              *)

SchemeChars ==
    {"a", "b", "c", "d", "e", "f", "g", "h", "i", "j", "k", "l", "m",
     "n", "o", "p", "q", "r", "s", "t", "u", "v", "w", "x", "y", "z",
     "0", "1", "2", "3", "4", "5", "6", "7", "8", "9", "+", "-", "."}

\* length of the scheme prefix of u (0 when u has no scheme)
SchemeLen(u) ==
    LET i == Find(u, ":")
    IN  IF i > 0 /\ \A k \in 1..i : SubSeq(u, k, k) \in SchemeChars
        THEN i ELSE 0

\* u with "scheme:" removed
AfterScheme(u) ==
    IF SchemeLen(u) > 0 THEN SliceFrom(u, SchemeLen(u) + 1) ELSE u

\* index in AfterScheme(u) where the network location ends
NetlocEnd(u) ==
    LET r == AfterScheme(u)
        d == MinFound(FindFrom(r, "/", 2),
                      MinFound(FindFrom(r, "?", 2), FindFrom(r, "#", 2)))
    IN  IF d < 0 THEN Len(r) ELSE d

HasNetloc(u) == SliceTo(AfterScheme(u), 2) = "//"

\* urlparse(u).netloc
Netloc(u) ==
    IF HasNetloc(u) THEN SubSeq(AfterScheme(u), 3, NetlocEnd(u)) ELSE ""

\* urlunparse(('', '') + urlparse(u)[2:])
RelUrl(u) ==
    IF HasNetloc(u) THEN SliceFrom(AfterScheme(u), NetlocEnd(u))
    ELSE AfterScheme(u)

-----------------------------------------------------------------------------
(* The remote side.                                                        *)

InitHost  == "g.co"
OtherHost == "h.uk"

Targets == {"/s?q=a", "/s?q=b"}

\* Location values: relative, absolute on either host, and the two "blocked"
\* forms
Locations ==
    {"/s2",
     "https://" \o InitHost \o "/s3",
     "https://" \o OtherHost \o "/s4",
     "https://" \o InitHost \o "/sorry/index?c=1",
     "/sorry/IndexRedirect?c=2"}

SetCookieValues == {"N=1; path=/", "N=2", ";x"}

\* statuses the remote side answers with: success, two of the five redirect
\* statuses, a 3xx status that is no redirect, and a client error
Statuses == {200, 302, 308, 304, 404}

ReasonPhrase(status) ==
    CASE status = 200 -> "OK"
      [] status = 302 -> "Found"
      [] status = 304 -> "Not Modified"
      [] status = 308 -> "Permanent Redirect"
      [] OTHER        -> "Not Found"

Payloads == {[gz |-> TRUE, text |-> "page1"], [gz |-> FALSE, text |-> "page2"]}

NoPayload == [gz |-> FALSE, text |-> ""]

NoHeaders == [n \in {} |-> ""]

LocationHeaders == {("location" :> l) : l \in Locations}

\* the Set-Cookie part of a response's headers
CookieHeaders == {NoHeaders} \cup {("set-cookie" :> c) : c \in SetCookieValues}

RedirectStatuses == Statuses \cap {301, 302, 303, 307, 308}

\* What fetch_page reads of a response after _raw_get has returned: status,
\* reason, Location and body.  Set-Cookie is read inside _raw_get only, so it
\* is drawn beside the response (CookieHeaders) and not kept with it.
Responses ==
    {[status |-> s, reason |-> ReasonPhrase(s), headers |-> lh, payload |-> NoPayload] :
        s \in RedirectStatuses, lh \in LocationHeaders}
    \cup
    {[status |-> 200, reason |-> ReasonPhrase(200), headers |-> NoHeaders, payload |-> p] :
        p \in Payloads}
    \cup
    {[status |-> s, reason |-> ReasonPhrase(s), headers |-> NoHeaders, payload |-> NoPayload] :
        s \in Statuses \ (RedirectStatuses \cup {200})}

NoResp == [status |-> 0, reason |-> "", headers |-> NoHeaders, payload |-> NoPayload]

\* transport failures: http.client.HTTPException, OSError, and
\* RemoteDisconnected, which derives from both
Exceptions == {"HTTPException", "OSError", "RemoteDisconnected"}

IsHTTPException(e) == e \in {"HTTPException", "RemoteDisconnected"}

IsOSError(e) == e \in {"OSError", "RemoteDisconnected"}

\* HTTPResponse.getheader(name, default)
GetHeader(headers, name, default) ==
    IF name \in DOMAIN headers THEN headers[name] ELSE default

\* getheader(name) is not None
HasHeader(headers, name) == name \in DOMAIN headers

-----------------------------------------------------------------------------
(* Outcomes of fetch_page.                                                 *)

NoResult == [kind |-> "none", type |-> "", value |-> ""]

\* return <str>
Returned(text) == [kind |-> "return", type |-> "str", value |-> text]

\* raise GoogleConnectionError(msg)
GoogleConnectionError(msg) ==
    [kind |-> "raise", type |-> "GoogleConnectionError", value |-> msg]

\* an exception no handler of fetch_page catches
Escaped(e) == [kind |-> "raise", type |-> e, value |-> ""]

\* "Failed to connect to %s: %s." (the proxy variant differs in text only)
ConnectFailed(h) == GoogleConnectionError("Failed to connect to " \o h)

\* "Failed to get '%s'."
GetFailed(u) == GoogleConnectionError("Failed to get '" \o u \o "'.")

BlockedMessage == "Connection blocked due to unusual activity."

\* variant: a condition of its own for the blocked redirect
BlockedFailureDistinct ==
    [kind |-> "raise", type |-> "BlockedError", value |-> BlockedMessage]

\* raise GoogleConnectionError('Connection blocked due to unusual activity.')
BlockedFailure == GoogleConnectionError(BlockedMessage)

\* variant: the reason phrase is left out of the message
StatusFailureNoReason(r) ==
    GoogleConnectionError("Got HTTP " \o ToString(r.status))

\* 'Got HTTP %d: %s' % (resp.status, resp.reason)
StatusFailure(r) ==
    GoogleConnectionError("Got HTTP " \o ToString(r.status) \o ": " \o r.reason)

-----------------------------------------------------------------------------
(* Decisions taken by the fetch client.                                    *)

\* variant: the first handler as narrow as the handler of the retry
CaughtFirstNarrow(e) == IsHTTPException(e)

\* except (http.client.HTTPException, OSError) around the first GET
CaughtFirst(e) == IsHTTPException(e) \/ IsOSError(e)

\* except http.client.HTTPException around the retry GET
CaughtRetry(e) == IsHTTPException(e)

\* except http.client.HTTPException around the GET of _redirect
CaughtRedirect(e) == IsHTTPException(e)

RedirectLimit == 3

\* resp.status in {301, 302, 303, 307, 308}
IsRedirectStatus(status) == status \in {301, 302, 303, 307, 308}

\* variant: off by one, redirect_counter <= 3
LoopContinuesOneMore(status, counter) == status /= 200 /\ counter <= RedirectLimit

\* while resp.status != 200 and redirect_counter < 3
LoopContinues(status, counter) == status /= 200 /\ counter < RedirectLimit

\* variant: only one of the two patterns is tested
IsBlockedIndexOnly(redirection_url) == Contains(redirection_url, "sorry/index?")

\* 'sorry/IndexRedirect?' in url or 'sorry/index?' in url
IsBlocked(redirection_url) ==
    \/ Contains(redirection_url, "sorry/IndexRedirect?")
    \/ Contains(redirection_url, "sorry/index?")

\* _redirect: if host != self._host
NeedsNewConnection(netloc, current) == netloc /= current

\* new_connection: if not host: host = self._host
ConnectTarget(h, current) == IF h = "" THEN current ELSE h

\* complete_cookie[:complete_cookie.find(';')]
CookieFromHeader(complete_cookie) ==
    SliceTo(complete_cookie, Find(complete_cookie, ";"))

\* the cookie stored after _raw_get has received a response with headers h
CookieAfter(ck, h) ==
    IF ck = "" /\ HasHeader(h, "set-cookie")
    THEN CookieFromHeader(GetHeader(h, "set-cookie", ""))
    ELSE ck

\* gzip.decompress(payload).decode('utf-8'), or payload.decode('utf-8')
\* when the payload is not gzipped
Decode(payload) == payload.text

-----------------------------------------------------------------------------
(* Part 2: GoogleUrl, the query state.  A GoogleUrl object is the record   *)
(* of its fields _tld, _num, _start, _keywords, _site and _query_dict; the *)
(* values of _query_dict are kept as the strings '%s' renders them to.     *)

\* Python's None
None == "<None>"

\* the characters the model's strings are made of, in code point order
Chars == " %&+-./0123456789:=ABCDEFTU_abcdefghijklmnopqrstuvwxyz"

\* ord(c), up to the order of the code points
Ord(c) == Find(Chars, c)

RECURSIVE StrLess(_, _)
\* a < b on Python strs: lexicographic by code point
StrLess(a, b) ==
    IF b = "" THEN FALSE
    ELSE IF a = "" THEN TRUE
    ELSE LET x == Ord(SubSeq(a, 1, 1))
             y == Ord(SubSeq(b, 1, 1))
         IN  IF x /= y THEN x < y
             ELSE StrLess(SubSeq(a, 2, Len(a)), SubSeq(b, 2, Len(b)))

RECURSIVE Sorted(_)
\* sorted(keys)
Sorted(S) ==
    IF S = {} THEN <<>>
    ELSE LET m == CHOOSE x \in S : \A y \in S \ {x} : StrLess(x, y)
         IN  <<m>> \o Sorted(S \ {m})

RECURSIVE Join(_, _)
\* sep.join(parts)
Join(parts, sep) ==
    IF Len(parts) = 0 THEN ""
    ELSE IF Len(parts) = 1 THEN parts[1]
    ELSE parts[1] \o sep \o Join(Tail(parts), sep)

\* urllib.parse.quote_plus of one character: letters, digits and '_.-' are
\* kept, a space becomes '+', anything else its percent-encoding
QuoteChar(c) ==
    CASE c = " " -> "+"
      [] c = "%" -> "%25"
      [] c = "&" -> "%26"
      [] c = "+" -> "%2B"
      [] c = "/" -> "%2F"
      [] c = ":" -> "%3A"
      [] c = "=" -> "%3D"
      [] OTHER   -> c

RECURSIVE QuotePlus(_)
\* urllib.parse.quote_plus(s)
QuotePlus(s) ==
    IF s = "" THEN ""
    ELSE QuoteChar(SubSeq(s, 1, 1)) \o QuotePlus(SubSeq(s, 2, Len(s)))

\* a keywords value: a list of strs (list = TRUE) or one str in items[1]
KeywordList(items) == [list |-> TRUE, items |-> items]
KeywordStr(str) == [list |-> FALSE, items |-> <<str>>]

\* if keywords: an empty list and an empty str are false
KeywordsTruthy(keywords) ==
    IF keywords.list THEN Len(keywords.items) > 0 ELSE keywords.items[1] /= ""

\* if v: for a value that is a str or None
StrTruthy(v) == v /= None /\ v /= ""

\* qd[k] = v
DictSet(qd, k, v) == (k :> v) @@ qd

\* qd.pop(k, None)
DictPop(qd, k) == [x \in (DOMAIN qd) \ {k} |-> qd[x]]

\* 'k' in opts
Has(opts, k) == k \in DOMAIN opts

\* the option keys update() recognizes
OptionKeys ==
    {"duration", "exact", "keywords", "lang", "news", "num", "site", "start",
     "tld"}

\* the values the callers of the model supply under each option key
OptionValues(k) ==
    CASE k = "duration" -> {"d"}
      [] k = "exact"    -> BOOLEAN
      [] k = "keywords" -> {KeywordStr("a b")}
      [] k = "lang"     -> {None, "en&num=3"}
      [] k = "news"     -> BOOLEAN
      [] k = "num"      -> {3}
      [] k = "site"     -> {"s.io"}
      [] k = "start"    -> {0, 2}
      [] k = "tld"      -> {"uk"}

\* opts = {}
NoOptions == <<>>

RECURSIVE OptionsOver(_)
\* the option dicts whose keys are exactly K
OptionsOver(K) ==
    IF K = {} THEN {NoOptions}
    ELSE LET k == CHOOSE x \in K : TRUE
         IN  {(k :> v) @@ rest : v \in OptionValues(k),
                                 rest \in OptionsOver(K \ {k})}

\* the option dicts over the subsets of the keys Keys
OptionsWithin(Keys) == UNION {OptionsOver(K) : K \in SUBSET Keys}

\* every option dict: any subset of the keys
Options == OptionsWithin(OptionKeys)

\* dicts that carry nothing but the page size and the start offset
PagingOptions == OptionsWithin({"num", "start"})

\* dicts that carry nothing but what the rendered query is made of
QueryOptions == OptionsWithin({"keywords", "lang", "site"})

\* GoogleUrl.__init__ before its call of update
Fresh ==
    [tld |-> None, num |-> 10, start |-> 0, keywords |-> KeywordList(<<>>),
     site |-> None, query_dict |-> ("ie" :> "UTF-8") @@ ("oe" :> "UTF-8")]

\* update: what it does to _query_dict (duration, exact, lang, news)
UpdateQueryDict(qd, opts) ==
    LET d == IF Has(opts, "duration") /\ StrTruthy(opts["duration"])
             THEN DictSet(qd, "tbs", "qdr:" \o opts["duration"]) ELSE qd
        e == IF Has(opts, "exact")
             THEN (IF opts["exact"] THEN DictSet(d, "nfpr", "1")
                                    ELSE DictPop(d, "nfpr"))
             ELSE d
        l == IF Has(opts, "lang") /\ StrTruthy(opts["lang"])
             THEN DictSet(e, "hl", opts["lang"]) ELSE e
    IN  IF Has(opts, "news")
        THEN (IF opts["news"] THEN DictSet(l, "tbm", "nws")
                              ELSE DictPop(l, "tbm"))
        ELSE l

\* variant: a site that is not given is reset
UpdateResettingSite(u, opts) ==
    [tld        |-> IF Has(opts, "tld") THEN opts["tld"] ELSE u.tld,
     num        |-> IF Has(opts, "num") THEN opts["num"] ELSE u.num,
     start      |-> IF Has(opts, "start") THEN opts["start"] ELSE u.start,
     keywords   |-> IF Has(opts, "keywords") THEN opts["keywords"]
                    ELSE u.keywords,
     site       |-> IF Has(opts, "site") THEN opts["site"] ELSE None,
     query_dict |-> UpdateQueryDict(u.query_dict, opts)]

\* GoogleUrl.update(opts): the object after the call
Update(u, opts) ==
    [tld        |-> IF Has(opts, "tld") THEN opts["tld"] ELSE u.tld,
     num        |-> IF Has(opts, "num") THEN opts["num"] ELSE u.num,
     start      |-> IF Has(opts, "start") THEN opts["start"] ELSE u.start,
     keywords   |-> IF Has(opts, "keywords") THEN opts["keywords"]
                    ELSE u.keywords,
     site       |-> IF Has(opts, "site") THEN opts["site"] ELSE u.site,
     query_dict |-> UpdateQueryDict(u.query_dict, opts)]

\* GoogleUrl(opts)
Construct(opts) == Update(Fresh, opts)

\* set_queries(k=v)
SetQueries(u, k, v) == [u EXCEPT !.query_dict = DictSet(@, k, v)]

\* unset_queries(k)
UnsetQueries(u, k) == [u EXCEPT !.query_dict = DictPop(@, k)]

\* variant: one result further instead of one page further
NextStartByOne(start, num) == start + 1

\* next_page: self._start += self._num
NextStart(start, num) == start + num

\* variant: the first page is any start within the first page size
AtFirstPageWithin(start, num) == start < num

\* prev_page, first_page: if self._start == 0: raise ValueError
AtFirstPage(start, num) == start = 0

\* variant: no clamping at 0
PrevStartUnclamped(start, num) == start - num

\* prev_page: (self._start - self._num) if self._start > self._num else 0
PrevStart(start, num) == IF start > num THEN start - num ELSE 0

\* the q parameter GoogleUrl.query constructs
QueryQ(u) ==
    LET kw == IF KeywordsTruthy(u.keywords)
              THEN (IF u.keywords.list
                    THEN Join([i \in 1..Len(u.keywords.items) |->
                                 QuotePlus(u.keywords.items[i])], "+")
                    ELSE QuotePlus(u.keywords.items[1]))
              ELSE ""
    IN  IF StrTruthy(u.site) THEN kw \o "+site:" \o QuotePlus(u.site) ELSE kw

\* the dict GoogleUrl.query renders: _query_dict overridden by num, start, q
QueryDict(u) ==
    ("q" :> QueryQ(u)) @@ ("start" :> ToString(u.start))
        @@ ("num" :> ToString(u.num)) @@ u.query_dict

\* GoogleUrl.query
Query(u) ==
    LET qd   == QueryDict(u)
        keys == Sorted(DOMAIN qd)
    IN  Join([i \in 1..Len(keys) |-> keys[i] \o "=" \o qd[keys[i]]], "&")

\* GoogleUrl.relative(): path '/search', no params, no fragment
Relative(u) ==
    IF Query(u) /= "" THEN "/search" \o "?" \o Query(u) ELSE "/search"

\* GoogleUrl.hostname, the netloc property: 'www.' + TLD_TO_DOMAIN_MAP[tld],
\* 'www.google.com' on a KeyError.  Of the hosts of Part 1, InitHost stands
\* for the default domain and OtherHost for the domain of the tld 'uk'
Hostname(u) == IF u.tld = "uk" THEN OtherHost ELSE InitHost

-----------------------------------------------------------------------------
(* Part 3: GoogleParser.  A parser object is the record of its attributes; *)
(* scope names the pair of tag handlers in place, capture the data handler *)
(* in place, error the exception feed() has raised, if any.  HTMLParser    *)
(* turns a page into a sequence of events: start tags with their attribute *)
(* dict, end tags, and text.                                               *)

StartTag(tag, attrs) == [kind |-> "start", tag |-> tag, attrs |-> attrs, data |-> ""]
EndTag(tag) == [kind |-> "end", tag |-> tag, attrs |-> <<>>, data |-> ""]
Text(data) == [kind |-> "data", tag |-> "", attrs |-> <<>>, data |-> data]

\* attrs.get(k)
Get(attrs, k) == IF Has(attrs, k) THEN attrs[k] ELSE None

RECURSIVE Words(_)
\* str.split() of a string whose only whitespace is the space
Words(s) ==
    IF s = "" THEN {}
    ELSE IF Find(s, " ") < 0 THEN {s}
    ELSE (IF Find(s, " ") = 0 THEN {} ELSE {SliceTo(s, Find(s, " "))})
             \cup Words(SliceFrom(s, Find(s, " ") + 1))

\* GoogleParser.classes(attrs), as the set its callers test membership in
Classes(attrs) == IF Has(attrs, "class") THEN Words(attrs["class"]) ELSE {}

\* GoogleParser.IGNORE_LIST
IGNORE_LIST ==
    {[tag |-> "div", class |-> "related-question-pair"],
     [tag |-> "div", class |-> "g-blk"],
     [tag |-> "div", class |-> "hp-xpdbox"]}

\* annotate_tag: the tag passes all criteria of some selector
Ignored(tag, attrs) ==
    \E selector \in IGNORE_LIST :
        /\ tag = selector.tag
        /\ Words(selector.class) \subseteq Classes(attrs)

\* s.startswith(prefix)
StartsWith(s, prefix) == SliceTo(s, Len(prefix)) = prefix

\* s.endswith(suffix)
EndsWith(s, suffix) ==
    Len(s) >= Len(suffix) /\ SubSeq(s, Len(s) - Len(suffix) + 1, Len(s)) = suffix

\* the character a percent-encoding of the model's strings stands for
UnquoteCode(code) ==
    CASE code = "%25" -> "%"
      [] code = "%26" -> "&"
      [] code = "%2B" -> "+"
      [] code = "%2F" -> "/"
      [] code = "%3A" -> ":"
      [] code = "%3D" -> "="
      [] OTHER        -> code

RECURSIVE UnquotePlus(_)
\* urllib.parse.unquote_plus(s)
UnquotePlus(s) ==
    IF s = "" THEN ""
    ELSE IF SubSeq(s, 1, 1) = "+" THEN " " \o UnquotePlus(SliceFrom(s, 1))
    ELSE IF SubSeq(s, 1, 1) = "%" /\ Len(s) >= 3
         THEN UnquoteCode(SubSeq(s, 1, 3)) \o UnquotePlus(SliceFrom(s, 3))
    ELSE SubSeq(s, 1, 1) \o UnquotePlus(SliceFrom(s, 1))

\* variant: the wrapped URL is taken as it is written, percent-encoded
UrlFromHrefQuoted(href) ==
    LET q == Find(href, "?q=")
        start == q + 3
        end == FindFrom(href, "&sa=", start)
    IN  IF q < 0 \/ end < 0 THEN href
        ELSE SubSeq(href, start + 1, end)

\* title_start, sitelink_title_start: the URL taken from an href, unwrapped
\* when it has '?q=' and a later '&sa='
UrlFromHref(href) ==
    LET q == Find(href, "?q=")
        start == q + 3
        end == FindFrom(href, "&sa=", start)
    IN  IF q < 0 \/ end < 0 THEN href
        ELSE UnquotePlus(SubSeq(href, start + 1, end))

RECURSIVE ReplaceAll(_, _, _)
\* s.replace(old, new)
ReplaceAll(s, old, new) ==
    IF Find(s, old) < 0 THEN s
    ELSE SliceTo(s, Find(s, old)) \o new
             \o ReplaceAll(SliceFrom(s, Find(s, old) + Len(old)), old, new)

\* s.replace(old, new, 1)
ReplaceFirst(s, old, new) ==
    IF Find(s, old) < 0 THEN s
    ELSE SliceTo(s, Find(s, old)) \o new \o SliceFrom(s, Find(s, old) + Len(old))

\* the data_transformer start_populating_textbuf was given, applied to text
Transformed(capture, text) ==
    CASE capture = "verbatim"  -> text
      [] capture = "space"     -> text \o " "
      [] capture = "news_ua"   -> IF text = "-" THEN ", " ELSE text
      [] capture = "news_noua" -> IF Contains(text, " - ")
                                  THEN ReplaceFirst(text, " -", ",") ELSE text

\* Sitelink('', '', '')
NoSitelink == [title |-> "", url |-> "", abstract |-> "", index |-> ""]

\* GoogleParser(news), with the module's ua flag as it is at the time
NewParser(news, ua) ==
    [news |-> news, ua |-> ua, scope |-> "root", capture |-> "off",
     tag_annotations |-> <<>>, textbuf |-> "", index |-> 0, results |-> <<>>,
     autocorrected |-> FALSE, suggested_spelling |-> None, filtered |-> FALSE,
     title |-> "", url |-> "", abstract |-> "", metadata |-> "",
     sitelinks |-> <<>>, title_registered |-> FALSE,
     abstract_registered |-> FALSE, metadata_registered |-> FALSE,
     current_sitelink |-> NoSitelink, error |-> ""]

\* the characters chr(ord('a')), chr(ord('a') + 1), ... in a row
SubIndices == "abcdefghijklmnopqrstuvwxyz{|}~"

\* Result.__init__: the subindex of the k-th sitelink
SubIndex(k) == SubSeq(SubIndices, k, k)

\* variant: every sitelink gets the parent's index
FullIndexOfParent(index, k) == index

\* Result.__init__: fullindex = index + subindex
FullIndex(index, k) == index \o SubIndex(k)

\* Result.__init__: the sitelinks once the loop has set their index
Indexed(index, sl) ==
    [k \in 1..Len(sl) |-> [sl[k] EXCEPT !.index = FullIndex(index, k)]]

\* Result.__init__: _urltable once the loop is over
Urltable(index, u, sl) ==
    [key \in {index} \cup {FullIndex(index, k) : k \in 1..Len(sl)} |->
        IF \E k \in 1..Len(sl) : key = FullIndex(index, k)
        THEN sl[CHOOSE k \in 1..Len(sl) :
                   /\ key = FullIndex(index, k)
                   /\ \A j \in (k + 1)..Len(sl) : key /= FullIndex(index, j)].url
        ELSE u]

\* Result(index, title, url, abstract, metadata, sitelinks), sitelinks a list
Result(i, t, u, a, m, sl) ==
    [index |-> ToString(i), title |-> t, url |-> u, abstract |-> a,
     metadata |-> m, sitelinks |-> Indexed(ToString(i), sl),
     urltable |-> Urltable(ToString(i), u, sl)]

\* the sitelinks argument left out: the parameter is None
NoSitelinks == [given |-> FALSE, list |-> <<>>]

\* the sitelinks argument given as the list sl
Sitelinks(sl) == [given |-> TRUE, list |-> sl]

\* Result.__init__(index, title, url, abstract, metadata, sitelinks): the
\* loop `for sitelink in sitelinks` walks the parameter, not self.sitelinks
ResultInit(i, t, u, a, m, sitelinks) ==
    IF sitelinks.given
    THEN [raised |-> "", result |-> Result(i, t, u, a, m, sitelinks.list)]
    ELSE [raised |-> "TypeError", result |-> <<>>]

\* insert_annotation(tag, annotation)
InsertAnnotation(p, tag, annotation) ==
    LET ta == p.tag_annotations
    IN  [p EXCEPT !.tag_annotations =
            (tag :> Append(IF Has(ta, tag) THEN ta[tag] ELSE <<>>, annotation))
                @@ ta]

\* set_handlers_to(scope)
SetHandlersTo(p, scope) == [p EXCEPT !.scope = scope]

\* start_populating_textbuf(data_transformer)
StartPopulatingTextbuf(p, capture) == [p EXCEPT !.capture = capture]

\* stop_populating_textbuf()
StopPopulatingTextbuf(p) == [p EXCEPT !.capture = "off"]

\* what a start handler hands back: the parser and the annotation
Annotated(p, annotation) == [parser |-> p, annotation |-> annotation]

\* pop_textbuf(), the buffer left behind
PoppedTextbuf(p) == [p EXCEPT !.textbuf = ""]

\* root_start
RootStart(p, tag, attrs) ==
    IF tag = "div" /\ "g" \in Classes(attrs)
    THEN Annotated(SetHandlersTo(
             [p EXCEPT !.title = "", !.url = "", !.abstract = "",
                       !.metadata = "", !.sitelinks = <<>>,
                       !.title_registered = FALSE,
                       !.abstract_registered = FALSE,
                       !.metadata_registered = FALSE], "result"), "result")
    ELSE IF /\ tag = "span" /\ "spell_orig" \in Classes(attrs)
            /\ Get(attrs, "id") /= "sifm"
    THEN Annotated([p EXCEPT !.autocorrected = TRUE], None)
    ELSE IF /\ tag = "a" /\ "spell" \in Classes(attrs)
            /\ Get(attrs, "id") /= "srfl"
    THEN Annotated(StartPopulatingTextbuf(p, "verbatim"), "spell")
    ELSE IF tag = "p" /\ Get(attrs, "id") = "ofr"
    THEN Annotated([p EXCEPT !.filtered = TRUE], None)
    ELSE Annotated(p, None)

\* result_start
ResultStart(p, tag, attrs) ==
    IF ~p.ua /\ tag = "span" /\ "mime" \in Classes(attrs)
    THEN Annotated(StartPopulatingTextbuf(p, "verbatim"), "title_filetype")
    ELSE IF ~p.title_registered /\ tag = "h3" /\ "r" \in Classes(attrs)
    THEN Annotated(SetHandlersTo(p, "title"), "title")
    ELSE IF ~p.abstract_registered /\ tag = "div" /\ "s" \in Classes(attrs)
    THEN Annotated(SetHandlersTo(p, "abstract"), "abstract")
    ELSE IF /\ ~p.ua /\ ~p.abstract_registered
            /\ tag = "span" /\ "st" \in Classes(attrs)
    THEN Annotated(StartPopulatingTextbuf(p, "space"), "abstract_gservices")
    ELSE IF /\ Len(p.sitelinks) = 0 /\ tag = "table"
            /\ (p.ua \/ (~p.news /\ "ts" \notin Classes(attrs)))
    THEN Annotated(SetHandlersTo(p, "sitelink_table"), "sitelink_table")
    ELSE IF /\ p.news /\ ~p.metadata_registered
            /\ tag = "div" /\ "slp" \in Classes(attrs)
    THEN Annotated(StartPopulatingTextbuf(
                       p, IF p.ua THEN "news_ua" ELSE "news_noua"),
                   "news_metadata")
    ELSE IF /\ p.news /\ ~p.abstract_registered
            /\ tag = "div" /\ "st" \in Classes(attrs)
    THEN Annotated(StartPopulatingTextbuf(p, "verbatim"), "news_abstract")
    ELSE Annotated(p, None)

\* variant: a same-site search link is taken as a title link
TitleStartOfAnyLink(p, tag, attrs) ==
    IF p.ua /\ tag = "span"
    THEN Annotated(StartPopulatingTextbuf(p, "space"), "title_filetype")
    ELSE IF tag = "a" /\ Has(attrs, "href")
    THEN Annotated(StartPopulatingTextbuf(
                       [p EXCEPT !.url = UrlFromHref(attrs["href"])],
                       "verbatim"), "title_link")
    ELSE Annotated(p, None)

\* title_start
TitleStart(p, tag, attrs) ==
    IF p.ua /\ tag = "span"
    THEN Annotated(StartPopulatingTextbuf(p, "space"), "title_filetype")
    ELSE IF tag = "a" /\ Has(attrs, "href")
    THEN (IF StartsWith(attrs["href"], "/search")
          THEN Annotated(p, None)
          ELSE Annotated(StartPopulatingTextbuf(
                             [p EXCEPT !.url = UrlFromHref(attrs["href"])],
                             "verbatim"), "title_link"))
    ELSE Annotated(p, None)

\* abstract_start
AbstractStart(p, tag, attrs) ==
    IF tag = "span" /\ "st" \in Classes(attrs)
    THEN Annotated(StartPopulatingTextbuf(p, "verbatim"), "abstract_text")
    ELSE Annotated(p, None)

\* sitelink_table_start
SitelinkTableStart(p, tag, attrs) ==
    IF tag = "td"
    THEN Annotated(SetHandlersTo([p EXCEPT !.current_sitelink = NoSitelink],
                                 "sitelink"), "sitelink")
    ELSE Annotated(p, None)

\* sitelink_start
SitelinkStart(p, tag, attrs) ==
    IF tag = "h3" /\ "r" \in Classes(attrs)
    THEN Annotated(SetHandlersTo(p, "sitelink_title"), "sitelink_title")
    ELSE IF tag = "div" /\ "st" \in Classes(attrs)
    THEN Annotated(StartPopulatingTextbuf(p, "verbatim"), "sitelink_abstract")
    ELSE Annotated(p, None)

\* sitelink_title_start
SitelinkTitleStart(p, tag, attrs) ==
    IF tag = "a" /\ Has(attrs, "href")
    THEN Annotated(StartPopulatingTextbuf(
                       [p EXCEPT !.current_sitelink.url =
                                     UrlFromHref(attrs["href"])],
                       "verbatim"), "sitelink_title_link")
    ELSE Annotated(p, None)

\* the start handler in place: getattr(self, scope + '_start')
ScopeStart(p, tag, attrs) ==
    CASE p.scope = "root"           -> RootStart(p, tag, attrs)
      [] p.scope = "result"         -> ResultStart(p, tag, attrs)
      [] p.scope = "title"          -> TitleStart(p, tag, attrs)
      [] p.scope = "abstract"       -> AbstractStart(p, tag, attrs)
      [] p.scope = "sitelink_table" -> SitelinkTableStart(p, tag, attrs)
      [] p.scope = "sitelink"       -> SitelinkStart(p, tag, attrs)
      [] p.scope = "sitelink_title" -> SitelinkTitleStart(p, tag, attrs)

\* annotate_tag: handle_starttag(tag, attrs)
HandleStarttag(p, tag, attrs) ==
    IF p.scope = "ignore" THEN InsertAnnotation(p, tag, None)
    ELSE IF Ignored(tag, attrs)
    THEN SetHandlersTo(InsertAnnotation(p, tag, p.scope \o "_ignored"),
                       "ignore")
    ELSE LET r == ScopeStart(p, tag, attrs)
         IN  InsertAnnotation(r.parser, tag, r.annotation)

\* root_end
RootEnd(p, annotation) ==
    IF annotation = "spell"
    THEN PoppedTextbuf([StopPopulatingTextbuf(p) EXCEPT
                           !.suggested_spelling = p.textbuf])
    ELSE p

\* variant: a result is registered whether or not it has a URL
RegistersAlways(u) == TRUE

\* result_end: if self.url
Registers(u) == u /= ""

\* variant: a result container without a URL uses up an index
WithoutResultCounted(p) == [p EXCEPT !.index = @ + 1]

\* result_end: a result container without a URL leaves the parser as it is
WithoutResult(p) == p

\* result_end
ResultEnd(p, annotation) ==
    CASE annotation = "result" ->
             SetHandlersTo(
                 IF Registers(p.url)
                 THEN [p EXCEPT
                          !.index = @ + 1,
                          !.sitelinks = Indexed(ToString(p.index + 1), @),
                          !.results = Append(@,
                              Result(p.index + 1, p.title, p.url, p.abstract,
                                     IF p.metadata /= "" THEN p.metadata
                                     ELSE None,
                                     p.sitelinks))]
                 ELSE WithoutResult(p), "root")
      [] annotation = "news_metadata" ->
             PoppedTextbuf([StopPopulatingTextbuf(p) EXCEPT
                               !.metadata = p.textbuf,
                               !.metadata_registered = TRUE])
      [] annotation = "news_abstract" ->
             PoppedTextbuf([StopPopulatingTextbuf(p) EXCEPT
                               !.abstract = p.textbuf,
                               !.abstract_registered = TRUE])
      [] annotation = "abstract_gservices" ->
             PoppedTextbuf([StopPopulatingTextbuf(p) EXCEPT
                               !.abstract = ReplaceAll(p.textbuf, "  ", " "),
                               !.abstract_registered = FALSE])
      [] OTHER -> p

\* variant: the text of the file type marker is thrown away
TitleEndDiscarding(p, annotation) ==
    CASE annotation = "title_filetype" ->
             PoppedTextbuf(StopPopulatingTextbuf(p))
      [] annotation = "title_link" ->
             PoppedTextbuf([StopPopulatingTextbuf(p) EXCEPT
                               !.title = p.textbuf,
                               !.title_registered = TRUE])
      [] annotation = "title" -> SetHandlersTo(p, "result")
      [] OTHER -> p

\* title_end
TitleEnd(p, annotation) ==
    CASE annotation = "title_filetype" -> StopPopulatingTextbuf(p)
      [] annotation = "title_link" ->
             PoppedTextbuf([StopPopulatingTextbuf(p) EXCEPT
                               !.title = p.textbuf,
                               !.title_registered = TRUE])
      [] annotation = "title" -> SetHandlersTo(p, "result")
      [] OTHER -> p

\* abstract_end
AbstractEnd(p, annotation) ==
    CASE annotation = "abstract_text" ->
             PoppedTextbuf([StopPopulatingTextbuf(p) EXCEPT
                               !.abstract = p.textbuf,
                               !.abstract_registered = FALSE])
      [] annotation = "abstract" -> SetHandlersTo(p, "result")
      [] OTHER -> p

\* variant: the end of a sitelink table hands control to root
SitelinkTableEndToRoot(p, annotation) ==
    IF annotation = "sitelink_table" THEN SetHandlersTo(p, "root") ELSE p

\* sitelink_table_end
SitelinkTableEnd(p, annotation) ==
    IF annotation = "sitelink_table" THEN SetHandlersTo(p, "result") ELSE p

\* variant: a cell gives a sitelink whether or not it has a URL
SitelinkEndOfAnyCell(p, annotation) ==
    CASE annotation = "sitelink_abstract" ->
             PoppedTextbuf([StopPopulatingTextbuf(p) EXCEPT
                               !.current_sitelink.abstract = p.textbuf])
      [] annotation = "sitelink" ->
             SetHandlersTo(
                 [p EXCEPT !.sitelinks = Append(@, p.current_sitelink)],
                 "sitelink_table")
      [] OTHER -> p

\* sitelink_end
SitelinkEnd(p, annotation) ==
    CASE annotation = "sitelink_abstract" ->
             PoppedTextbuf([StopPopulatingTextbuf(p) EXCEPT
                               !.current_sitelink.abstract = p.textbuf])
      [] annotation = "sitelink" ->
             SetHandlersTo(
                 IF p.current_sitelink.url /= ""
                 THEN [p EXCEPT !.sitelinks = Append(@, p.current_sitelink)]
                 ELSE p, "sitelink_table")
      [] OTHER -> p

\* sitelink_title_end
SitelinkTitleEnd(p, annotation) ==
    CASE annotation = "sitelink_title_link" ->
             PoppedTextbuf([StopPopulatingTextbuf(p) EXCEPT
                               !.current_sitelink.title = p.textbuf])
      [] annotation = "sitelink_title" -> SetHandlersTo(p, "sitelink")
      [] OTHER -> p

\* variant: the end of an ignored container hands control to root
IgnoreEndToRoot(p, annotation) ==
    IF annotation /= None /\ annotation /= "" /\ EndsWith(annotation, "_ignored")
    THEN SetHandlersTo(p, "root")
    ELSE p

\* ignore_end
IgnoreEnd(p, annotation) ==
    IF annotation /= None /\ annotation /= "" /\ EndsWith(annotation, "_ignored")
    THEN SetHandlersTo(p, SliceTo(annotation, -8))
    ELSE p

\* the end handler in place: getattr(self, scope + '_end')
ScopeEnd(p, annotation) ==
    CASE p.scope = "root"           -> RootEnd(p, annotation)
      [] p.scope = "result"         -> ResultEnd(p, annotation)
      [] p.scope = "title"          -> TitleEnd(p, annotation)
      [] p.scope = "abstract"       -> AbstractEnd(p, annotation)
      [] p.scope = "sitelink_table" -> SitelinkTableEnd(p, annotation)
      [] p.scope = "sitelink"       -> SitelinkEnd(p, annotation)
      [] p.scope = "sitelink_title" -> SitelinkTitleEnd(p, annotation)
      [] p.scope = "ignore"         -> IgnoreEnd(p, annotation)

\* retrieve_tag_annotation: handle_endtag(tag).  self.tag_annotations[tag]
\* raises KeyError for a tag name that has no stack; pop() of an empty stack
\* raises IndexError, which is caught
HandleEndtag(p, tag) ==
    IF ~Has(p.tag_annotations, tag) THEN [p EXCEPT !.error = "KeyError"]
    ELSE LET stack == p.tag_annotations[tag]
         IN  IF Len(stack) = 0 THEN ScopeEnd(p, None)
             ELSE ScopeEnd([p EXCEPT !.tag_annotations[tag] =
                                         SubSeq(stack, 1, Len(stack) - 1)],
                           stack[Len(stack)])

\* handle_data(data): dropped, or recorded through the transformer
HandleData(p, data) ==
    IF p.capture = "off" THEN p
    ELSE [p EXCEPT !.textbuf = @ \o Transformed(p.capture, data)]

\* feed(): one event of the page; nothing more is parsed once feed() raised
Feed(p, e) ==
    IF p.error /= "" THEN p
    ELSE CASE e.kind = "start" -> HandleStarttag(p, e.tag, e.attrs)
           [] e.kind = "end"   -> HandleEndtag(p, e.tag)
           [] e.kind = "data"  -> HandleData(p, e.data)

RECURSIVE FeedAll(_, _)
\* feed(page): the events of the page one after the other
FeedAll(p, events) ==
    IF events = <<>> THEN p
    ELSE FeedAll(Feed(p, Head(events)), Tail(events))

-----------------------------------------------------------------------------
(* Part 4: GooglerCmd, the session.  A session is the record of the fields *)
(* fetch() writes: results, _autocorrected_to, _results_filtered and        *)
(* _urltable.                                                                *)

\* GoogleUrl.news
News(u) == Has(u.query_dict, "tbm") /\ u.query_dict["tbm"] = "nws"

\* variant: the suggested spelling is taken whether or not the original
\* spelling marker was met
SuggestedSpelling(p) == p.suggested_spelling

\* fetch: parser.suggested_spelling if parser.autocorrected else None
AutocorrectedTo(p) == IF p.autocorrected THEN p.suggested_spelling ELSE None

\* variant: the lookup table of the fetch before is kept
UrltableKept(old) == old

\* fetch: self._urltable = {}
UrltableReset(old) == <<>>

RECURSIVE UrltableUpdated(_, _)
\* fetch: for r in self.results: self._urltable.update(r.urltable())
UrltableUpdated(table, results) ==
    IF results = <<>> THEN table
    ELSE UrltableUpdated(Head(results).urltable @@ table, Tail(results))

\* fetch(): the session once parser p has been fed the page
Fetched(s, p) ==
    [results |-> p.results,
     autocorrected_to |-> AutocorrectedTo(p),
     results_filtered |-> p.filtered,
     urltable |-> UrltableUpdated(UrltableReset(s.urltable), p.results)]

-----------------------------------------------------------------------------
(* State.                                                                  *)

NoHist ==
    [gets |-> 0, renews |-> 0, hops |-> 0, connects |-> 0,
     firstFailed |-> FALSE, renewOk |-> FALSE, firstHost |-> ""]

NoGet ==
    [host |-> "", url |-> "", cookie |-> "", unread |-> FALSE,
     afterSetCookie |-> FALSE, phase |-> "none"]

NoHop == ""

NoSeen == [any |-> FALSE, value |-> "", cookieHost |-> ""]

\* the command asked no page of the fetch client
NoFetch == ""

\* no call was made on the GoogleUrl object yet
NoOp ==
    [name |-> "init", prev |-> "init", raised |-> "", boundary |-> FALSE,
     was |-> 0, fetch |-> NoFetch]

\* GoogleConnection.__init__ after a successful connect
InitConnection ==
    /\ host = InitHost
    /\ conn = "open"
    /\ unread = FALSE
    /\ cookie = ""
    /\ resp = NoResp
    /\ pc = "idle"
    /\ url = ""
    /\ redirect_counter = 0
    /\ result = NoResult
    /\ hist = NoHist
    /\ lastGet = NoGet
    /\ lastHop = NoHop
    /\ seen = NoSeen

\* GoogleUrl(opts) for the option dicts of Opts
InitUrl(Opts) ==
    /\ google_url \in {Construct(opts) : opts \in Opts}
    /\ lastOp = NoOp

\* no page was handed to feed(): no events, no ignore-listed container
NoPage == [events |-> <<>>, from |-> 0, to |-> 0]

\* GoogleParser.__init__ up to its call of feed(), for the parsers of Parsers
\* and the pages of Pages
InitParser(Parsers, Pages) ==
    /\ parser \in Parsers
    /\ page \in Pages
    /\ fed = 0
    /\ pruned = parser
    /\ open = <<>>

\* GooglerCmd.__init__: the fields fetch() writes
NewSession ==
    [results |-> <<>>, autocorrected_to |-> None, results_filtered |-> FALSE,
     urltable |-> <<>>]

\* fetch() was not called yet
NoFetchYet == [called |-> FALSE, raised |-> "", was |-> NewSession]

\* the Result constructor was not called yet
NothingMade ==
    [called |-> FALSE, index |-> 0, title |-> "", url |-> "", abstract |-> "",
     metadata |-> None, sitelinks |-> NoSitelinks, raised |-> "",
     result |-> <<>>]

\* cmdloop was not called yet: no command was read, no page is held
NotStarted ==
    [pc |-> "start", cmd |-> "", raised |-> "", fetch |-> NoFetch,
     shown |-> NoFetch]

\* the session as GooglerCmd.__init__ leaves it; no Result was made on its own
InitSession ==
    /\ session = NewSession
    /\ lastFetch = NoFetchYet
    /\ made = NothingMade
    /\ loop = NotStarted

\* a connected client next to a GoogleUrl object made without options; no
\* page was fetched yet
Init ==
    /\ InitConnection
    /\ InitUrl({NoOptions})
    /\ InitParser({NewParser(FALSE, TRUE)}, {NoPage})
    /\ InitSession

\* _raw_get(u) raising an exception: the request was put on the wire, or the
\* attempt to do so failed, and no response was stored.  (On a connection
\* whose connect had failed, HTTPConnection.request() connects on demand
\* before it writes, and raises OSError when that fails.)
RawGetRaises(u, phase) ==
    /\ lastGet' = [host |-> host, url |-> u, cookie |-> cookie,
                   unread |-> unread,
                   afterSetCookie |-> seen.any, phase |-> phase]
    /\ UNCHANGED <<conn, unread, cookie, resp, seen>>

\* _raw_get(u) receiving response r, whose headers include h; the connection
\* is open by then, connected on demand if need be
RawGetReceives(u, phase, r, h) ==
    /\ lastGet' = [host |-> host, url |-> u, cookie |-> cookie,
                   unread |-> unread,
                   afterSetCookie |-> seen.any, phase |-> phase]
    /\ conn' = "open"
    /\ unread' = TRUE
    /\ resp' = r
    /\ cookie' = CookieAfter(cookie, h)
    /\ seen' = [any |-> seen.any \/ HasHeader(h, "set-cookie"),
                value |-> IF ~seen.any /\ HasHeader(h, "set-cookie")
                          THEN GetHeader(h, "set-cookie", "") ELSE seen.value,
                cookieHost |-> IF cookie = "" /\ CookieAfter(cookie, h) /= ""
                               THEN host ELSE seen.cookieHost]

\* new_connection(h), the connect succeeding or not; self.cookie is kept
NewConnection(h, ok) ==
    /\ host' = ConnectTarget(h, host)
    /\ conn' = IF ok THEN "open" ELSE "failed"
    /\ unread' = FALSE
    /\ UNCHANGED <<cookie, resp, seen>>

\* fetch_page(u) up to and including its first GET
FetchPage ==
    /\ pc = "idle"
    /\ \E u \in Targets :
        /\ url' = u
        /\ \/ \E e \in Exceptions :
                /\ RawGetRaises(u, "first")
                /\ hist' = [NoHist EXCEPT !.gets = 1, !.firstFailed = TRUE,
                                              !.firstHost = host]
                /\ IF CaughtFirst(e)
                   THEN pc' = "renew" /\ result' = NoResult
                   ELSE pc' = "done" /\ result' = Escaped(e)
           \/ \E r \in Responses, h \in CookieHeaders :
                /\ RawGetReceives(u, "first", r, h)
                /\ hist' = [NoHist EXCEPT !.gets = 1, !.firstHost = host]
                /\ pc' = "loop"
                /\ result' = NoResult
    /\ UNCHANGED <<host, redirect_counter, lastHop>>
    /\ UNCHANGED beyondConn

\* fetch_page: self.renew_connection() after the first GET failed
RenewConnection ==
    /\ pc = "renew"
    /\ \E ok \in BOOLEAN :
        /\ NewConnection("", ok)
        /\ hist' = [hist EXCEPT !.renews = @ + 1, !.connects = @ + 1,
                                !.renewOk = ok]
        /\ IF ok
           THEN pc' = "retry" /\ result' = NoResult
           ELSE pc' = "done" /\ result' = ConnectFailed(host')
    /\ UNCHANGED <<url, redirect_counter, lastGet, lastHop>>
    /\ UNCHANGED beyondConn

\* fetch_page: the second self._raw_get(url)
RetryGet ==
    /\ pc = "retry"
    /\ \/ \E e \in Exceptions :
            /\ RawGetRaises(url, "retry")
            /\ pc' = "done"
            /\ result' = IF CaughtRetry(e) THEN GetFailed(url) ELSE Escaped(e)
       \/ \E r \in Responses, h \in CookieHeaders :
            /\ RawGetReceives(url, "retry", r, h)
            /\ pc' = "loop"
            /\ result' = NoResult
    /\ hist' = [hist EXCEPT !.gets = @ + 1]
    /\ UNCHANGED <<host, url, redirect_counter, lastHop>>
    /\ UNCHANGED beyondConn

\* the Location the loop body reads
RedirectionUrl == GetHeader(resp.headers, "location", "")

\* fetch_page loop body: the redirect target is a "blocked" page
Blocked ==
    /\ pc = "loop"
    /\ LoopContinues(resp.status, redirect_counter)
    /\ IsRedirectStatus(resp.status)
    /\ IsBlocked(RedirectionUrl)
    /\ pc' = "done"
    /\ result' = BlockedFailure
    /\ UNCHANGED <<host, conn, unread, cookie, resp, url, redirect_counter,
                   hist, lastGet, lastHop, seen>>
    /\ UNCHANGED beyondConn

\* fetch_page loop body, then _redirect up to its GET: a new connection is
\* made when the Location's netloc is not the connected host
Redirect ==
    /\ pc = "loop"
    /\ LoopContinues(resp.status, redirect_counter)
    /\ IsRedirectStatus(resp.status)
    /\ ~IsBlocked(RedirectionUrl)
    /\ LET netloc == Netloc(RedirectionUrl)
       IN  IF NeedsNewConnection(netloc, host)
           THEN \E ok \in BOOLEAN :
                /\ NewConnection(netloc, ok)
                /\ hist' = [hist EXCEPT !.connects = @ + 1]
                /\ IF ok
                   THEN pc' = "redirect" /\ result' = NoResult
                   ELSE pc' = "done" /\ result' = ConnectFailed(host')
           ELSE /\ pc' = "redirect"
                /\ UNCHANGED <<host, conn, unread, cookie, resp, seen, hist, result>>
    /\ lastHop' = RedirectionUrl
    /\ UNCHANGED <<url, redirect_counter, lastGet>>
    /\ UNCHANGED beyondConn

\* _redirect: self._raw_get(relurl), then back to the loop head
RedirectGet ==
    /\ pc = "redirect"
    /\ LET relurl == RelUrl(lastHop)
       IN  \/ \E e \in Exceptions :
                /\ RawGetRaises(relurl, "redirect")
                /\ pc' = "done"
                /\ result' = IF CaughtRedirect(e) THEN GetFailed(lastHop)
                             ELSE Escaped(e)
                /\ UNCHANGED redirect_counter
           \/ \E r \in Responses, h \in CookieHeaders :
                /\ RawGetReceives(relurl, "redirect", r, h)
                /\ pc' = "loop"
                /\ result' = NoResult
                /\ redirect_counter' = redirect_counter + 1
    /\ hist' = [hist EXCEPT !.hops = @ + 1]
    /\ UNCHANGED <<host, url, lastHop>>
    /\ UNCHANGED beyondConn

\* fetch_page after the loop: if resp.status != 200: raise
StatusError ==
    /\ pc = "loop"
    /\ ~(LoopContinues(resp.status, redirect_counter) /\ IsRedirectStatus(resp.status))
    /\ resp.status /= 200
    /\ pc' = "done"
    /\ result' = StatusFailure(resp)
    /\ UNCHANGED <<host, conn, unread, cookie, resp, url, redirect_counter,
                   hist, lastGet, lastHop, seen>>
    /\ UNCHANGED beyondConn

\* fetch_page after the loop: resp.read() and decoding
ReadPayload ==
    /\ pc = "loop"
    /\ resp.status = 200
    /\ pc' = "done"
    /\ \/ /\ result' = Returned(Decode(resp.payload))
          /\ unread' = FALSE
       \/ \E e \in Exceptions :
          /\ result' = Escaped(e)
          /\ UNCHANGED unread
    /\ UNCHANGED <<host, conn, cookie, resp, url, redirect_counter,
                   hist, lastGet, lastHop, seen>>
    /\ UNCHANGED beyondConn

\* what is left of a call once its caller has the outcome: the locals are
\* gone; _resp is only ever read after a _raw_get of the same call has stored
\* it, so its value between calls is not observable and is forgotten
CallOver ==
    /\ pc' = "idle"
    /\ url' = ""
    /\ redirect_counter' = 0
    /\ result' = NoResult
    /\ resp' = NoResp
    /\ hist' = NoHist
    /\ lastGet' = NoGet
    /\ lastHop' = NoHop
    /\ UNCHANGED <<host, conn, unread, cookie, seen>>
    /\ UNCHANGED beyondConn

\* fetch_page has returned the page to its caller
Return ==
    /\ pc = "done"
    /\ result.kind = "return"
    /\ CallOver

\* fetch_page has raised and its caller goes on to use the connection, which
\* the class allows (googler's own main() ends the process instead)
Recover ==
    /\ pc = "done"
    /\ result.kind = "raise"
    /\ CallOver

\* the steps of fetch_page
Step ==
    \/ FetchPage
    \/ RenewConnection
    \/ RetryGet
    \/ Blocked
    \/ Redirect
    \/ RedirectGet
    \/ StatusError
    \/ ReadPayload

Next ==
    \/ Step
    \/ Return
    \/ Recover

\* a client that stops at the first error, as googler does
NextUntilError ==
    \/ Step
    \/ Return

Spec == Init /\ [][Next]_vars

SpecUntilError == Init /\ [][NextUntilError]_vars

-----------------------------------------------------------------------------
(* The calls on the GoogleUrl object.  lastOp records the call: its name,   *)
(* the name of the call before it, the exception it raised to its caller,   *)
(* whether prev_page or first_page met the first page, the start offset     *)
(* before a paging call, and the target handed to fetch_page, if any.       *)

MaxStart == 12

\* the record of a call that went through without fetching
Called(name) ==
    [name |-> name, prev |-> lastOp.name, raised |-> "", boundary |-> FALSE,
     was |-> 0, fetch |-> NoFetch]

\* the record of a paging call that went through without fetching
Paged(name) == [Called(name) EXCEPT !.was = google_url.start]

\* the record of a prev_page or first_page call that raised ValueError
PagedAtBoundary(name) ==
    [Paged(name) EXCEPT !.raised = "ValueError", !.boundary = TRUE]

\* update(opts)
UpdateCall(opts) ==
    /\ google_url' = Update(google_url, opts)
    /\ lastOp' = Called("update")
    /\ UNCHANGED beyondUrl

\* update with any option dict
UpdateAny == \E opts \in Options : UpdateCall(opts)

\* update of the page size and the start offset
UpdatePaging == \E opts \in PagingOptions : UpdateCall(opts)

\* update of keywords, language and site
UpdateQuery == \E opts \in QueryOptions : UpdateCall(opts)

\* next_page()
NextPage ==
    /\ NextStart(google_url.start, google_url.num) <= MaxStart
    /\ google_url' = [google_url EXCEPT
                         !.start = NextStart(@, google_url.num)]
    /\ lastOp' = Paged("next_page")
    /\ UNCHANGED beyondUrl

\* prev_page()
PrevPage ==
    /\ IF AtFirstPage(google_url.start, google_url.num)
       THEN /\ lastOp' = PagedAtBoundary("prev_page")
            /\ UNCHANGED google_url
       ELSE /\ google_url' = [google_url EXCEPT
                                 !.start = PrevStart(@, google_url.num)]
            /\ lastOp' = Paged("prev_page")
    /\ UNCHANGED beyondUrl

\* first_page()
FirstPage ==
    /\ IF AtFirstPage(google_url.start, google_url.num)
       THEN /\ lastOp' = PagedAtBoundary("first_page")
            /\ UNCHANGED google_url
       ELSE /\ google_url' = [google_url EXCEPT !.start = 0]
            /\ lastOp' = Paged("first_page")
    /\ UNCHANGED beyondUrl

\* variant: the return after the ValueError is missing
DoPreviousFetchesAlways(boundary) == TRUE

\* do_previous: return after a ValueError, fetch_and_display otherwise
DoPreviousFetches(boundary) == ~boundary

\* GooglerCmd.do_previous up to its call of fetch_page, whose target it
\* hands over (the fetch itself is a call of Part 1)
DoPrevious ==
    /\ IF ~KeywordsTruthy(google_url.keywords)
       THEN /\ lastOp' = [Paged("do_previous") EXCEPT
                             !.raised = "NoKeywordsException"]
            /\ UNCHANGED google_url
       ELSE LET boundary == AtFirstPage(google_url.start, google_url.num)
            IN  /\ google_url' =
                      IF boundary THEN google_url
                      ELSE [google_url EXCEPT
                               !.start = PrevStart(@, google_url.num)]
                /\ lastOp' = [Paged("do_previous") EXCEPT
                                 !.boundary = boundary,
                                 !.fetch = IF DoPreviousFetches(boundary)
                                           THEN Relative(google_url')
                                           ELSE NoFetch]
    /\ UNCHANGED beyondUrl

\* the keys and values the callers of the model hand to set_queries
QueryParams ==
    {<<"filter", "0">>, <<"num", "7">>, <<"q", "x">>, <<"start", "9">>}

\* the keys the callers of the model hand to unset_queries
UnsetKeys == {"filter", "ie", "num", "q", "start"}

\* set_queries(k=v)
SetQueriesCall ==
    /\ \E kv \in QueryParams :
          google_url' = SetQueries(google_url, kv[1], kv[2])
    /\ lastOp' = Called("set_queries")
    /\ UNCHANGED beyondUrl

\* unset_queries(k)
UnsetQueriesCall ==
    /\ \E k \in UnsetKeys : google_url' = UnsetQueries(google_url, k)
    /\ lastOp' = Called("unset_queries")
    /\ UNCHANGED beyondUrl

\* a caller that pages and resets page size and start offset
NextPaging ==
    \/ NextPage
    \/ PrevPage
    \/ FirstPage
    \/ DoPrevious
    \/ UpdatePaging

\* a caller that only updates
NextUpdate == UpdateAny

\* a caller that changes what the query is rendered from, and pages
NextQuery ==
    \/ UpdateQuery
    \/ SetQueriesCall
    \/ UnsetQueriesCall
    \/ NextPage
    \/ PrevPage
    \/ FirstPage

\* a GoogleUrl made with or without keywords, page size and start offset
InitPaging ==
    /\ InitConnection
    /\ InitUrl(OptionsWithin({"keywords", "num", "start"}))
    /\ InitParser({NewParser(FALSE, TRUE)}, {NoPage})
    /\ InitSession

SpecPaging == InitPaging /\ [][NextPaging]_vars

SpecUpdate == Init /\ [][NextUpdate]_vars

SpecQuery == Init /\ [][NextQuery]_vars

-----------------------------------------------------------------------------
(* The parser at work.  HTMLParser.feed calls handle_starttag,              *)
(* handle_endtag and handle_data once per event of the page.  Either the    *)
(* page is the environment's, which hands over any event at any time, or    *)
(* it is a page that is known from the start: a result container with an    *)
(* ignore-listed container put somewhere inside it.                         *)

MaxOpen == 3
MaxText == 1
MaxResults == 2

\* an element: its start tag, its content, its end tag
Element(start, content) == <<start>> \o content \o <<EndTag(start.tag)>>

\* <tag class="c">
Classed(tag, c) == StartTag(tag, "class" :> c)

\* <a href="h">
Link(href) == StartTag("a", "href" :> href)

\* the hrefs of the environment's links: a result's own URL, a same-site
\* search link, a redirect link that wraps nothing
Hrefs == {"http://x", "/search?q=x", "/url?q=&sa=U"}

StartTags ==
    {Classed("div", "g"), Classed("div", "g-blk"), Classed("h3", "r")}
        \cup {Link(h) : h \in Hrefs}

EndTags == {EndTag(tag) : tag \in {"div", "h3", "a", "b"}}

Texts == {Text("t")}

\* the start tags on the stacks of tag_annotations
RECURSIVE OpenTags(_)
OpenTags(ta) ==
    IF DOMAIN ta = {} THEN 0
    ELSE LET tag == CHOOSE t \in DOMAIN ta : TRUE
         IN  Len(ta[tag]) + OpenTags([t \in DOMAIN ta \ {tag} |-> ta[t]])

\* feed() is still running
Parsing == parser.error = "" /\ Len(parser.results) < MaxResults

\* handle_starttag(tag, attrs) for a start tag of the environment
HandleStarttagCall ==
    /\ Parsing
    /\ OpenTags(parser.tag_annotations) < MaxOpen
    /\ \E e \in StartTags : parser' = Feed(parser, e)
    /\ UNCHANGED <<page, fed, pruned, open>>
    /\ UNCHANGED beyondParse

\* handle_endtag(tag) for an end tag of the environment
HandleEndtagCall ==
    /\ Parsing
    /\ \E e \in EndTags : parser' = Feed(parser, e)
    /\ UNCHANGED <<page, fed, pruned, open>>
    /\ UNCHANGED beyondParse

\* handle_data(data) for text of the environment
HandleDataCall ==
    /\ Parsing
    /\ Len(parser.textbuf) < MaxText
    /\ \E e \in Texts : parser' = Feed(parser, e)
    /\ UNCHANGED <<page, fed, pruned, open>>
    /\ UNCHANGED beyondParse

NextParse ==
    \/ HandleStarttagCall
    \/ HandleEndtagCall
    \/ HandleDataCall

\* a parser for web results; the page is the environment's
InitParse ==
    /\ InitConnection
    /\ InitUrl({NoOptions})
    /\ InitParser({NewParser(FALSE, TRUE)}, {NoPage})
    /\ InitSession

SpecParse == InitParse /\ [][NextParse]_vars

\* a result container with title, abstract and one sitelink
ResultContainer ==
    Element(Classed("div", "g"),
        Element(Classed("h3", "r"),
            Element(Link("http://x"), <<Text("T")>>))
        \o Element(Classed("div", "s"),
            Element(Classed("span", "st"), <<Text("ab")>>))
        \o Element(StartTag("table", <<>>),
            Element(StartTag("td", <<>>),
                Element(Classed("h3", "r"),
                    Element(Link("http://y"), <<Text("S")>>))
                \o Element(Classed("div", "st"), <<Text("sa")>>))))

\* what the ignore-listed containers of the model hold: nothing, text, a
\* link, an element of the same tag name, another ignore-listed container
IgnoredContents ==
    {<<>>, <<Text("X")>>, Element(Link("http://z"), <<Text("X")>>),
     Element(Classed("div", "g"), <<Text("X")>>),
     Element(Classed("div", "g-blk"), <<Text("X")>>)}

\* the ignore-listed containers of the model
IgnoredContainers ==
    {Element(Classed("div", selector.class), content) :
        selector \in IGNORE_LIST, content \in IgnoredContents}

\* events with the events of inner put in after the first at events
Inserted(events, at, inner) ==
    [events |-> SubSeq(events, 1, at) \o inner
                    \o SubSeq(events, at + 1, Len(events)),
     from |-> at + 1, to |-> at + Len(inner)]

\* the result container with an ignore-listed container before it, anywhere
\* inside it, or after it
PagesWithIgnored ==
    {Inserted(ResultContainer, at, inner) :
        at \in 0..Len(ResultContainer), inner \in IgnoredContainers}

\* the open element a start tag makes: the tag, the scope, the data handler
\* and the title guard of the parser before it, and the annotation on top of
\* the tag's stack after it
Opened(e, before, after) ==
    [event |-> e, scope |-> before.scope, capture |-> before.capture,
     title_registered |-> before.title_registered,
     annotation |-> LET stack == after.tag_annotations[e.tag]
                    IN  stack[Len(stack)]]

\* the open elements once event e of a well-nested page is handled
OpenAfter(e, before, after) ==
    CASE e.kind = "start" -> Append(open, Opened(e, before, after))
      [] e.kind = "end"   -> SubSeq(open, 1, Len(open) - 1)
      [] e.kind = "data"  -> open

\* feed(): the next event of page; pruned is fed the events that lie outside
\* the ignore-listed container
FeedPage ==
    /\ fed < Len(page.events)
    /\ fed' = fed + 1
    /\ parser' = Feed(parser, page.events[fed'])
    /\ pruned' = IF fed' \in page.from..page.to THEN pruned
                 ELSE Feed(pruned, page.events[fed'])
    /\ open' = OpenAfter(page.events[fed'], parser, parser')
    /\ UNCHANGED page
    /\ UNCHANGED beyondParse

NextIgnore == FeedPage

\* a parser for web results about to be fed a page with an ignore-listed
\* container
InitIgnore ==
    /\ InitConnection
    /\ InitUrl({NoOptions})
    /\ InitParser({NewParser(FALSE, ua) : ua \in BOOLEAN}, PagesWithIgnored)
    /\ InitSession

SpecIgnore == InitIgnore /\ [][NextIgnore]_vars

-----------------------------------------------------------------------------
(* Well-nested pages: one of a few pages of result containers, as it is or  *)
(* with one more well-nested element put anywhere in it.                    *)

\* a title container with one link
TitleContainer(href, text) ==
    Element(Classed("h3", "r"), Element(Link(href), <<Text(text)>>))

\* an abstract container
AbstractContainer(text) ==
    Element(Classed("div", "s"), Element(Classed("span", "st"), <<Text(text)>>))

\* one cell of a sitelink table
SitelinkCell(href, text) == Element(StartTag("td", <<>>), TitleContainer(href, text))

\* a result container with a wrapped title link and an abstract
ExampleContainer ==
    Element(Classed("div", "g"),
        TitleContainer("/url?q=http%3A%2F%2Fexample.com%2Fx&sa=U", "Example")
        \o AbstractContainer("An example site."))

\* two result containers in a row
TwoContainers ==
    Element(Classed("div", "g"), TitleContainer("http://x", "T"))
    \o Element(Classed("div", "g"), TitleContainer("http://w", "W"))

\* the pages something is put in
BasePages == {ResultContainer, ExampleContainer, TwoContainers}

\* what is put in: a title container, a file type marker, a result container
\* with and without a URL, a sitelink table, one sitelink cell, two sitelink
\* cells, an abstract container, a plain element, a same-site search link, an
\* ignore-listed container, text
NestedElements ==
    {TitleContainer("http://y", "U"),
     Element(Classed("span", "mime"), <<Text("[PDF]")>>),
     Element(Classed("div", "g"), TitleContainer("http://y", "U")),
     Element(Classed("div", "g"), <<>>),
     Element(StartTag("table", <<>>), SitelinkCell("http://z", "Z")),
     SitelinkCell("http://z", "Z"),
     SitelinkCell("http://z", "Z") \o SitelinkCell("http://v", "V"),
     AbstractContainer("cd"),
     Element(StartTag("div", <<>>), <<Text("X")>>),
     Element(Link("/search?q=x"), <<Text("N")>>),
     Element(Classed("div", "g-blk"), <<Text("X")>>),
     <<Text("X")>>}

\* the well-nested pages of the model
NestedPages ==
    {Inserted(base, 0, <<>>) : base \in BasePages}
        \cup UNION {{Inserted(base, at, inner) :
                        at \in 0..Len(base), inner \in NestedElements} :
                    base \in BasePages}

NextNested == FeedPage

\* a parser for web results about to be fed a well-nested page
InitNested ==
    /\ InitConnection
    /\ InitUrl({NoOptions})
    /\ InitParser({NewParser(FALSE, ua) : ua \in BOOLEAN}, NestedPages)
    /\ InitSession

SpecNested == InitNested /\ [][NextNested]_vars

-----------------------------------------------------------------------------
(* Result objects made by a caller of its own: made records the arguments   *)
(* of the last call of the constructor, the exception it raised, and the    *)
(* object it returned.                                                       *)

Indices == {1, 2, 10}
Titles == {"", "T"}
Urls == {"http://x", "http://y"}
Abstracts == {"", "ab"}
Metadata == {None, "m"}

\* Sitelink(title, url, abstract)
Sitelink(t, u, a) == [title |-> t, url |-> u, abstract |-> a, index |-> ""]

\* the sitelinks arguments: left out, an empty list, one and two sitelinks
SitelinkArgs ==
    {NoSitelinks, Sitelinks(<<>>),
     Sitelinks(<<Sitelink("Z", "http://z", "")>>),
     Sitelinks(<<Sitelink("Z", "http://z", ""), Sitelink("V", "http://v", "cd")>>)}

\* Result(index, title, url, abstract[, metadata][, sitelinks])
ResultCall ==
    /\ \E i \in Indices, t \in Titles, u \in Urls, a \in Abstracts,
          m \in Metadata, sl \in SitelinkArgs :
          LET ret == ResultInit(i, t, u, a, m, sl)
          IN  made' = [called |-> TRUE, index |-> i, title |-> t, url |-> u,
                       abstract |-> a, metadata |-> m, sitelinks |-> sl,
                       raised |-> ret.raised, result |-> ret.result]
    /\ UNCHANGED <<session, lastFetch, loop>>
    /\ UNCHANGED <<connVars, urlVars, parseVars>>

NextResult == ResultCall

SpecResult == Init /\ [][NextResult]_vars

-----------------------------------------------------------------------------
(* The session at work.  fetch() asks the connection for the page of the    *)
(* current GoogleUrl; here the connection either raises or hands back one   *)
(* of the pages of SessionPages on the spot.  lastFetch records the last     *)
(* call: the exception it raised and the session as it was before.           *)

\* <a class="spell">, with an id if id is not empty
SpellLink(id, content) ==
    Element(StartTag("a", IF id = "" THEN "class" :> "spell"
                          ELSE ("class" :> "spell") @@ ("id" :> id)),
            content)

\* <span class="spell_orig">, with an id if id is not empty
SpellOrig(id) ==
    Element(StartTag("span", IF id = "" THEN "class" :> "spell_orig"
                             ELSE ("class" :> "spell_orig") @@ ("id" :> id)),
            <<>>)

\* the spelling links whose text is text: plain or inside <b>
SpellLinks(text) ==
    IF text = "sp" THEN {SpellLink("", <<Text(text)>>)}
    ELSE {SpellLink("", Element(StartTag("b", <<>>), <<Text(text)>>)),
          SpellLink("x", <<Text(text)>>)}

SpellTexts == {"sp", "go"}

\* no spelling link, a spelling link, or the link Google hides in every page
LinkChoices ==
    {<<>>, SpellLink("srfl", <<Text("sp")>>)}
        \cup UNION {SpellLinks(text) : text \in SpellTexts}

\* no marker of the original spelling, a marker, or the marker Google hides
\* in every page
OrigChoices == {<<>>, SpellOrig(""), SpellOrig("sifm")}

\* what comes before the result containers: link and marker in either
\* order, or inside a result container or an ignore-listed container
Headings ==
    UNION {{l \o m, m \o l} : l \in LinkChoices, m \in OrigChoices}
        \cup {Element(Classed("div", c),
                      SpellLink("", <<Text("sp")>>) \o SpellOrig("")) :
                  c \in {"g", "g-blk"}}

\* the result containers of a page: none, one, one with a sitelink, two
SessionBases == {<<>>, ExampleContainer, ResultContainer, TwoContainers}

\* a page with an end tag that was never opened
StrayEnd == <<Text("hi"), EndTag("b")>>

\* the pages of the connection: every heading with no result container and
\* with the one that has a sitelink, the other result containers on their
\* own, and the page with the stray end tag
SessionPages ==
    {[events |-> h \o base, from |-> 0, to |-> 0] :
        h \in Headings, base \in {<<>>, ResultContainer}}
        \cup {[events |-> base, from |-> 0, to |-> 0] : base \in SessionBases}
        \cup {[events |-> StrayEnd, from |-> 0, to |-> 0]}

\* fetch() raising e: the session stays as it was
FetchRaises(e) ==
    /\ lastFetch' = [called |-> TRUE, raised |-> e, was |-> session]
    /\ UNCHANGED <<session, parseVars>>

\* fetch() with the page `fetched` from the connection
FetchParses(fetched) ==
    \E p \in {FeedAll(NewParser(News(google_url), parser.ua), fetched.events)} :
        /\ parser' = p
        /\ pruned' = p
        /\ page' = fetched
        /\ fed' = Len(fetched.events)
        /\ open' = <<>>
        /\ session' = IF p.error = "" THEN Fetched(session, p) ELSE session
        /\ lastFetch' = [called |-> TRUE, raised |-> p.error, was |-> session]

\* GooglerCmd.fetch()
FetchCall ==
    /\ IF ~KeywordsTruthy(google_url.keywords)
       THEN FetchRaises("NoKeywordsException")
       ELSE \/ FetchRaises("GoogleConnectionError")
            \/ \E fetched \in SessionPages : FetchParses(fetched)
    /\ UNCHANGED <<made, loop>>
    /\ UNCHANGED <<connVars, urlVars>>

NextSession == FetchCall

\* a session made with or without keywords, the ua flag on or off
InitSessionCmd ==
    /\ InitConnection
    /\ InitUrl(OptionsWithin({"keywords"}))
    /\ InitParser({NewParser(FALSE, ua) : ua \in BOOLEAN}, {NoPage})
    /\ InitSession

SpecSession == InitSessionCmd /\ [][NextSession]_vars

-----------------------------------------------------------------------------
(* Pages of title links: result containers whose title container and        *)
(* sitelink cells hold links with wrapped and plain hrefs, same-site search  *)
(* links and file type markers.                                              *)

\* what a redirect wrapper points to: as it is written in the q parameter,
\* and percent-decoded
WrappedTargets ==
    {[quoted |-> "http%3A%2F%2Fexample.com%2Fx", plain |-> "http://example.com/x"],
     [quoted |-> "http://x", plain |-> "http://x"],
     [quoted |-> "a%2Bb+c", plain |-> "a+b c"]}

\* what follows the q parameter: the sa parameter, nothing, another
\* parameter before sa, another parameter after sa
Tails == {"&sa=U", "", "&ved=1&sa=U", "&sa=U&ved=1"}

\* the href of a redirect wrapper
Wrapped(target, tail) == "/url?q=" \o target.quoted \o tail

\* hrefs without a q parameter
PlainHrefs == {"http://x", "http://x/p?a=1"}

\* a same-site search href
SearchHref == "/search?q=x"

\* the hrefs of the links
LinkHrefs ==
    {Wrapped(target, tail) : target \in WrappedTargets, tail \in Tails}
        \cup PlainHrefs \cup {SearchHref}

\* <a href="href">text</a>
TextLink(href, text) == Element(Link(href), <<Text(text)>>)

\* a file type marker
FileType == Element(StartTag("span", <<>>), <<Text("[PDF]")>>)

\* what the title container of the pages holds: one link, a file type marker
\* before a link, a search link before a link, a marker alone, nothing
TitleContents ==
    {TextLink(h, "T") : h \in LinkHrefs}
        \cup {FileType \o TextLink(h, "T") : h \in {"http://x", SearchHref}}
        \cup {TextLink(SearchHref, "N") \o TextLink("http://x", "T"),
              FileType, <<>>}

\* <div class="g"><h3 class="r">title</h3>rest</div>
Container(title, rest) ==
    Element(Classed("div", "g"), Element(Classed("h3", "r"), title) \o rest)

\* <td>content</td>
Cell(content) == Element(StartTag("td", <<>>), content)

\* <table>cells</table>
Table(cells) == Element(StartTag("table", <<>>), cells)

\* a cell whose title container holds a link to href
LinkCell(href, text) == Cell(TitleContainer(href, text))

\* cells without a URL: text only, a link without href in the title
\* container, a wrapper of nothing
EmptyCells ==
    {Cell(<<Text("X")>>),
     Cell(Element(Classed("h3", "r"),
                  Element(StartTag("a", <<>>), <<Text("S")>>))),
     LinkCell("/url?q=&sa=U", "S")}

\* the cells of the sitelink tables: one cell per href, cells without a URL
\* between cells with one, a cell inside a cell, a cell with two links and an
\* abstract
CellRows ==
    {LinkCell(h, "T") : h \in LinkHrefs}
        \cup EmptyCells
        \cup {LinkCell("http://y", "S") \o c \o LinkCell("http://z", "Z") :
                 c \in EmptyCells}
        \cup {Cell(TitleContainer("http://y", "S") \o LinkCell("http://z", "Z"))
                  \o LinkCell("http://v", "V"),
              Cell(Element(Classed("h3", "r"),
                           TextLink("http://y", "S") \o TextLink("http://z", "Z"))
                   \o Element(Classed("div", "st"), <<Text("sa")>>))}

\* a spelling link around a result container
SpellAround == SpellLink("", <<Text("sp")>> \o Container(TextLink("http://x", "T"), <<>>))

\* the pages: one result container with a title container and nothing more,
\* an abstract, or a sitelink table; the same followed by a second result
\* container; a result container inside a spelling link
LinkPages ==
    {[events |-> events, from |-> 0, to |-> 0] :
        events \in
            {Container(title, rest) :
                title \in TitleContents, rest \in {<<>>, AbstractContainer("ab")}}
            \cup {Container(TextLink("http://m", "M"), Table(cells)) :
                     cells \in CellRows}
            \cup {Container(title, <<>>) \o Container(TextLink("http://w", "W"),
                                                      AbstractContainer("cd")) :
                     title \in {FileType, FileType \o TextLink(SearchHref, "N"),
                                FileType \o TextLink("http://x", "T")}}
            \cup {SpellAround}}

NextLinks == FeedPage

\* a parser for web results about to be fed a page of title links
InitLinks ==
    /\ InitConnection
    /\ InitUrl({NoOptions})
    /\ InitParser({NewParser(FALSE, ua) : ua \in BOOLEAN}, LinkPages)
    /\ InitSession

SpecLinks == InitLinks /\ [][NextLinks]_vars

-----------------------------------------------------------------------------
(* The command loop.  cmdloop fetches the page of the GoogleUrl if there    *)
(* are keywords and then reads commands; a command is one action, its fetch *)
(* and the parse of the page included.  The remote side answers a target    *)
(* with a page that has no result or with the page that has the result of   *)
(* the target's start offset, or the connection fails.  loop.shown is the   *)
(* target whose page the session holds.                                     *)

\* the result container the remote side has at start offset start
HitAt(start) ==
    Container(TextLink("http://x/" \o ToString(start), "T"), <<>>)

\* the pages the remote side has for the GoogleUrl u
PagesAt(u) ==
    {[events |-> evs, from |-> 0, to |-> 0] : evs \in {<<>>, HitAt(u.start)}}

\* cmdloop: except NoKeywordsException goes on to the next command; any
\* other exception leaves cmdloop, and main() logs it and exits
AfterCommand(e) ==
    IF e \in {"", "NoKeywordsException"} THEN "prompt" ELSE "exited"

\* a command that raised e before it fetched, or went through without a fetch
WithoutFetch(cmd, e) ==
    /\ loop' = [pc |-> AfterCommand(e), cmd |-> cmd, raised |-> e,
                fetch |-> NoFetch, shown |-> loop.shown]
    /\ UNCHANGED <<session, lastFetch, parseVars>>

\* fetch_and_display() once the GoogleUrl is u: fetch() raises
\* GoogleConnectionError or parses a page of the remote side; what follows
\* in fetch_and_display prints
FetchAndDisplay(cmd, u) ==
    \/ /\ FetchRaises("GoogleConnectionError")
       /\ loop' = [pc |-> AfterCommand("GoogleConnectionError"), cmd |-> cmd,
                   raised |-> "GoogleConnectionError",
                   fetch |-> Relative(u), shown |-> loop.shown]
    \/ \E fetched \in PagesAt(u) :
          /\ FetchParses(fetched)
          /\ loop' = [pc |-> AfterCommand(lastFetch'.raised), cmd |-> cmd,
                      raised |-> lastFetch'.raised, fetch |-> Relative(u),
                      shown |-> IF lastFetch'.raised = "" THEN Relative(u)
                                ELSE loop.shown]

\* the history of a command's calls on the GoogleUrl object
Commanded(name, e, boundary) ==
    [Paged(name) EXCEPT !.raised = e, !.boundary = boundary,
                        !.fetch = loop'.fetch]

\* require_keywords
RequireKeywords(u) ==
    IF KeywordsTruthy(u.keywords) THEN "" ELSE "NoKeywordsException"

\* cmdloop before its while loop
CmdLoopStart ==
    /\ loop.pc = "start"
    /\ IF KeywordsTruthy(google_url.keywords)
       THEN FetchAndDisplay("", google_url)
       ELSE WithoutFetch("", "")
    /\ UNCHANGED <<connVars, urlVars, made>>

\* first_page()
FirstPageOf(u) ==
    IF AtFirstPage(u.start, u.num)
    THEN [url |-> u, raised |-> "ValueError"]
    ELSE [url |-> [u EXCEPT !.start = 0], raised |-> ""]

\* prev_page()
PrevPageOf(u) ==
    IF AtFirstPage(u.start, u.num)
    THEN [url |-> u, raised |-> "ValueError"]
    ELSE [url |-> [u EXCEPT !.start = PrevStart(@, u.num)], raised |-> ""]

\* the command 'f', do_first: first_page(), whose ValueError is not caught,
\* then fetch_and_display()
CmdFirst ==
    /\ loop.pc = "prompt"
    /\ IF RequireKeywords(google_url) /= ""
       THEN /\ WithoutFetch("f", RequireKeywords(google_url))
            /\ UNCHANGED google_url
       ELSE /\ google_url' = FirstPageOf(google_url).url
            /\ IF FirstPageOf(google_url).raised /= ""
               THEN WithoutFetch("f", FirstPageOf(google_url).raised)
               ELSE FetchAndDisplay("f", google_url')
    /\ lastOp' = Commanded("do_first", loop'.raised,
                           AtFirstPage(google_url.start, google_url.num))
    /\ UNCHANGED <<connVars, made>>

\* the command 'p', do_previous: prev_page(), return after a ValueError,
\* fetch_and_display() otherwise
CmdPrevious ==
    /\ loop.pc = "prompt"
    /\ IF RequireKeywords(google_url) /= ""
       THEN /\ WithoutFetch("p", RequireKeywords(google_url))
            /\ UNCHANGED google_url
       ELSE /\ google_url' = PrevPageOf(google_url).url
            /\ IF PrevPageOf(google_url).raised = "ValueError"
               THEN WithoutFetch("p", "")
               ELSE FetchAndDisplay("p", google_url')
    /\ lastOp' = Commanded("do_previous", loop'.raised,
                           AtFirstPage(google_url.start, google_url.num))
    /\ UNCHANGED <<connVars, made>>

\* do_next: not self.results and self._google_url._num > 5
NextBlocked(results, num) == results = <<>> /\ num > 5

\* the command 'n', do_next: 'No results.' when the page held has none and
\* the page size is above 5, next_page() and fetch_and_display() otherwise
CmdNext ==
    /\ loop.pc = "prompt"
    /\ IF RequireKeywords(google_url) /= ""
       THEN /\ WithoutFetch("n", RequireKeywords(google_url))
            /\ UNCHANGED google_url
       ELSE IF NextBlocked(session.results, google_url.num)
       THEN /\ WithoutFetch("n", "")
            /\ UNCHANGED google_url
       ELSE /\ NextStart(google_url.start, google_url.num) <= MaxStart
            /\ google_url' = [google_url EXCEPT
                                 !.start = NextStart(@, google_url.num)]
            /\ FetchAndDisplay("n", google_url')
    /\ lastOp' = Commanded("do_next", loop'.raised, FALSE)
    /\ UNCHANGED <<connVars, made>>

NextCommand ==
    \/ CmdLoopStart
    \/ CmdFirst
    \/ CmdPrevious
    \/ CmdNext

\* a session made with or without keywords, page size and start offset, the
\* ua flag on or off
InitCommand ==
    /\ InitConnection
    /\ InitUrl(OptionsWithin({"keywords", "num", "start"}))
    /\ InitParser({NewParser(FALSE, ua) : ua \in BOOLEAN}, {NoPage})
    /\ InitSession

SpecCommand == InitCommand /\ [][NextCommand]_vars

-----------------------------------------------------------------------------
(* Properties of the fetch client.                                         *)

Done == pc = "done"

\* the running call has left its first two GETs (and the reconnect) behind
PastRetry == pc \in {"loop", "redirect", "done"}

\* C1 as stated: whenever the first GET of a fetch fails with a transport
\* error, the client reconnects exactly once and issues exactly one more GET
\* of the same target.
C1_ReconnectAndRetryAlways ==
    (Done /\ hist.firstFailed) => (hist.renews = 1 /\ hist.gets = 2)

\* C1 amended: after a failed first GET the client makes exactly one
\* reconnect attempt, to the same host.  If re-establishing fails, the fetch
\* fails with a connection-error and no further GET; if it succeeds, exactly
\* one more GET of the same target is issued on the same host, and a fetch
\* that returns straight from the retried response returns its content.  The
\* target is never requested a third time, the connection never renewed twice.
C1_ReconnectOnceRetryOnce ==
    /\ hist.renews <= 1 /\ hist.gets <= 2
    /\ hist.renews = 1 => hist.firstFailed
    /\ (hist.firstFailed /\ pc /= "renew") => hist.renews = 1
    /\ hist.gets = 2 => (hist.firstFailed /\ hist.renewOk)
    /\ (hist.firstFailed /\ pc = "retry") => (hist.renewOk /\ hist.gets = 1)
    /\ (hist.firstFailed /\ PastRetry /\ hist.renewOk) => hist.gets = 2
    /\ (hist.firstFailed /\ PastRetry /\ ~hist.renewOk) =>
          /\ Done /\ hist.gets = 1
          /\ result.kind = "raise" /\ result.type = "GoogleConnectionError"
    /\ lastGet.phase = "retry" =>
          (lastGet.url = url /\ lastGet.host = hist.firstHost)
    /\ (Done /\ lastGet.phase = "retry" /\ result.kind = "return") =>
          (resp.status = 200 /\ result.value = resp.payload.text)

\* C1 witness: first GET failed, one reconnect, the retry returned the page
C1_Witness ==
    /\ Done /\ hist.firstFailed /\ hist.renews = 1 /\ hist.gets = 2
    /\ hist.hops = 0 /\ result.kind = "return" /\ result.value = "page1"

\* C2: every failure of fetch_page that stems from a transport failure on a
\* GET (first, retry, redirect) or on a (re)connect, or from a status or a
\* blocked redirect, is a GoogleConnectionError.  (A state with a 200
\* response and a raised error is a failed body read, which the claim does
\* not speak of.)
C2_OnlyConnectionError ==
    (Done /\ result.kind = "raise" /\ resp.status /= 200) =>
        result.type = "GoogleConnectionError"

\* C3: a fetch issues at most 3 redirect GETs; a redirect response received
\* when 3 redirects were followed is not followed but fails the fetch.
C3_AtMostThreeRedirects ==
    /\ hist.hops <= 3
    /\ redirect_counter <= hist.hops
    /\ pc = "redirect" => hist.hops < 3
    /\ (Done /\ hist.hops = 3 /\ resp.status \in {301, 302, 303, 307, 308}) =>
          (result.kind = "raise" /\ lastGet.phase = "redirect")

\* C3 witness: three redirects followed, the fourth redirect response refused
C3_Witness ==
    /\ Done /\ hist.hops = 3 /\ resp.status \in {301, 302, 303, 307, 308}
    /\ result.kind = "raise"

\* the error fetch_page raises for a response it will not follow
C4_Carries(r, res) ==
    /\ res.kind = "raise"
    /\ res.type = "GoogleConnectionError"
    /\ res.value = "Got HTTP " \o ToString(r.status) \o ": " \o r.reason

\* C4: content is returned only from a 200 response; a response that is
\* neither 200 nor a redirect, and a redirect left when the budget of 3 is
\* used up, fail the fetch in the next step, with no request or connect in
\* between, by a connection-error carrying status code and reason phrase.
C4_OnlyFrom200 ==
    [][ /\ result'.kind = "return" =>
            (pc = "loop" /\ resp.status = 200 /\ resp' = resp
             /\ result'.value = resp.payload.text)
        /\ (pc = "loop" /\ resp.status /= 200
            /\ (resp.status \notin {301, 302, 303, 307, 308} \/ redirect_counter = 3)) =>
            (pc' = "done" /\ C4_Carries(resp, result')
             /\ hist' = hist /\ lastGet' = lastGet /\ conn' = conn /\ host' = host)
      ]_vars

\* C4 witness: a 404 to the first GET failed the fetch, status and reason in
\* the error
C4_Witness ==
    /\ Done /\ resp.status = 404 /\ hist.gets = 1 /\ hist.hops = 0
    /\ hist.connects = 0 /\ result.value = "Got HTTP 404: Not Found"

\* the Location of the stored response matches the blocked pattern
C5_BlockedLocation ==
    /\ resp.status \in {301, 302, 303, 307, 308}
    /\ "location" \in DOMAIN resp.headers
    /\ \/ Contains(resp.headers["location"], "sorry/IndexRedirect?")
       \/ Contains(resp.headers["location"], "sorry/index?")

\* C5: a redirect response whose Location matches the blocked pattern fails
\* the fetch in the next step: no GET is issued and no connection made for
\* it, at any hop.
C5_BlockedNotFollowed ==
    [][ (pc = "loop" /\ C5_BlockedLocation) =>
            (pc' = "done" /\ result'.kind = "raise"
             /\ hist' = hist /\ lastGet' = lastGet
             /\ conn' = conn /\ host' = host /\ unread' = unread)
      ]_vars

\* C5 witness: the blocked Location arrived at the third hop and failed the
\* fetch
C5_Witness ==
    /\ Done /\ hist.hops = 2 /\ C5_BlockedLocation
    /\ result.value = BlockedMessage

\* the call ended in the loop body's blocked branch
C6_BlockedOutcome == Done /\ C5_BlockedLocation /\ hist.hops < 3

C7_TargetHost(loc, current) == IF Netloc(loc) = "" THEN current ELSE Netloc(loc)

\* C7: following a redirect, the connection is closed and re-established if
\* and only if the target's host differs from the connected host.
C7_ReconnectIffOtherHost ==
    [][ (pc = "loop" /\ (pc' = "redirect" \/ hist'.connects /= hist.connects)) =>
            ((hist'.connects = hist.connects + 1)
                <=> (C7_TargetHost(GetHeader(resp.headers, "location", ""), host) /= host))
      ]_vars

\* the part of a Set-Cookie header value before its first ';'
C8_BeforeFirstSemicolon(v) ==
    IF Find(v, ";") < 0 THEN v ELSE SubSeq(v, 1, Find(v, ";"))

\* C8: once a response with a Set-Cookie header was received, the stored
\* cookie is the part of that header before its first ';', later requests
\* send exactly it and no later Set-Cookie changes it; before that the
\* Cookie header sent is empty.
C8_CookieIsFirstSetCookie ==
    /\ seen.any => cookie = C8_BeforeFirstSemicolon(seen.value)
    /\ ~seen.any => cookie = ""
    /\ lastGet.phase /= "none" =>
          lastGet.cookie = (IF lastGet.afterSetCookie
                            THEN C8_BeforeFirstSemicolon(seen.value) ELSE "")

\* C9: a cookie captured from one host is never sent in a request to another
\* host.
C9_CookieStaysWithHost ==
    (lastGet.phase /= "none" /\ lastGet.cookie /= "") =>
        lastGet.host = seen.cookieHost

\* C10: no GET is issued on a connection whose previous response is still
\* unconsumed, and every GET is issued on an established connection (a
\* response is only ever received over one).
C10_OneInFlightOnOpenConnection ==
    /\ lastGet.phase /= "none" => ~lastGet.unread
    /\ unread => conn = "open"

\* what a running fetch_page call can still do, as a number: one step of the
\* call always leaves less of it
C11_Rank ==
    CASE pc = "idle"     -> 11
      [] pc = "renew"    -> 10
      [] pc = "retry"    -> 9
      [] pc = "loop"     -> 8 - 2 * redirect_counter
      [] pc = "redirect" -> 7 - 2 * redirect_counter
      [] pc = "done"     -> 0

\* the GETs of a call stay within bounds, and a call that is over has
\* returned or raised
C11_Bounded ==
    /\ hist.gets <= 2 /\ hist.hops <= 3 /\ hist.gets + hist.hops <= 5
    /\ C11_Rank >= 0
    /\ Done => (result.kind \in {"return", "raise"})

\* C11: every fetch_page call ends, returning content or raising, after at
\* most 5 GET requests (the first, one retry, three redirect GETs), whatever
\* the remote side does: the GETs stay within bounds before and after every
\* step, and every step of the call (every step taken while the call is not
\* over) brings it closer to its end.  (A single connect or GET is taken to
\* end, with a response or with an exception.)
C11_TerminatesWithinFiveGets ==
    [][ /\ C11_Bounded
        /\ C11_Bounded'
        /\ ~Done => (C11_Rank' < C11_Rank) ]_vars

\* a call that ended after all five GETs
C11_Witness == Done /\ hist.gets = 2 /\ hist.hops = 3

-----------------------------------------------------------------------------
(* Properties of the query state.                                          *)

\* C12 as stated: next_page() followed by prev_page() restores the start
\* offset s, except when s is less than the page size, in which case
\* prev_page() yields start = 0.
C12_RestoresOrClamps ==
    [][ (lastOp.name = "next_page" /\ lastOp'.name = "prev_page") =>
            google_url'.start =
                (IF lastOp.was < google_url.num THEN 0 ELSE lastOp.was) ]_vars

\* C12 amended: for any page size n >= 1 and start offset s >= 0,
\* next_page() followed by prev_page() restores the start offset s and
\* prev_page() does not fail, also when s is less than the page size.
C12_NextThenPrevRestores ==
    [][ (lastOp.name = "next_page" /\ lastOp'.name = "prev_page") =>
            /\ google_url.num >= 1 /\ lastOp.was >= 0
            /\ google_url'.start = lastOp.was
            /\ lastOp'.raised = "" ]_vars

\* prev_page() after next_page() from a start offset within the first page
C12_Witness ==
    /\ lastOp.name = "prev_page" /\ lastOp.prev = "next_page"
    /\ 0 < google_url.start /\ google_url.start < google_url.num

\* max(a, b)
C13_Max(a, b) == IF a >= b THEN a ELSE b

\* C13: prev_page() and first_page() each raise the already-at-first-page
\* error if and only if start = 0 at call time; with start > 0, first_page()
\* sets start to 0 and prev_page() sets it to max(0, start - page size).
C13_FailsIffAtStartZero ==
    [][ (lastOp'.name \in {"prev_page", "first_page"}) =>
            /\ (lastOp'.raised = "ValueError") <=> (google_url.start = 0)
            /\ (lastOp'.raised = "") <=> (google_url.start /= 0)
            /\ (google_url.start > 0 /\ lastOp'.name = "first_page") =>
                   google_url'.start = 0
            /\ (google_url.start > 0 /\ lastOp'.name = "prev_page") =>
                   google_url'.start =
                       C13_Max(0, google_url.start - google_url.num) ]_vars

\* first_page() failing right after a prev_page() that went to the first page
C13_Witness ==
    /\ lastOp.name = "first_page" /\ lastOp.raised = "ValueError"
    /\ lastOp.prev = "prev_page" /\ google_url.start = 0

\* C14: when prev_page() or first_page() fails at the first page, also
\* inside do_previous, no field of the GoogleUrl object changes, no page is
\* asked of the fetch client and nothing of the connection changes.
C14_BoundaryFailureChangesNothing ==
    [][ lastOp'.boundary =>
            /\ google_url' = google_url
            /\ lastOp'.fetch = NoFetch
            /\ UNCHANGED connVars ]_vars

\* do_previous at the first page of a query with keywords
C14_Witness ==
    /\ lastOp.name = "do_previous" /\ lastOp.boundary
    /\ KeywordsTruthy(google_url.keywords)

\* C15: start and page size are non-negative integers in every state reached
\* by next_page, prev_page, first_page (failing calls included) and updates
\* with non-negative values, also when the page size is raised above the
\* start offset before prev_page.
C15_StartAndNumNonNegative ==
    /\ google_url.start \in Nat
    /\ google_url.num \in Nat

\* prev_page() after an update, with a page size above the start offset
C15_Witness ==
    /\ lastOp.name = "prev_page" /\ lastOp.prev = "update"
    /\ 0 < lastOp.was /\ lastOp.was < google_url.num
    /\ google_url.start = 0

RECURSIVE C16_Split(_, _)
\* s.split(sep) for a one-character sep
C16_Split(s, sep) ==
    IF Find(s, sep) < 0 THEN <<s>>
    ELSE <<SliceTo(s, Find(s, sep))>>
             \o C16_Split(SliceFrom(s, Find(s, sep) + 1), sep)

\* the key of one 'key=value' parameter
C16_Key(param) ==
    IF Find(param, "=") < 0 THEN param ELSE SliceTo(param, Find(param, "="))

\* the value of one 'key=value' parameter
C16_Value(param) ==
    IF Find(param, "=") < 0 THEN "" ELSE SliceFrom(param, Find(param, "=") + 1)

\* the positions of the parameters with key k among the parameters ps
C16_At(ps, k) == {i \in 1..Len(ps) : C16_Key(ps[i]) = k}

\* C16: the rendered query string has exactly one q, one num and one start
\* parameter, num and start carry the current page size and start offset, q
\* is the value made from keywords and site, and the keys are in sorted order.
C16_OneOfEachSorted ==
    LET ps == C16_Split(Query(google_url), "&")
    IN  /\ \A k \in {"q", "num", "start"} : Cardinality(C16_At(ps, k)) = 1
        /\ \A i \in C16_At(ps, "num") :
              C16_Value(ps[i]) = ToString(google_url.num)
        /\ \A i \in C16_At(ps, "start") :
              C16_Value(ps[i]) = ToString(google_url.start)
        /\ \A i \in C16_At(ps, "q") : C16_Value(ps[i]) = QueryQ(google_url)
        /\ \A i \in 1..(Len(ps) - 1) :
              ~StrLess(C16_Key(ps[i + 1]), C16_Key(ps[i]))

\* the fields of the GoogleUrl object behind each option key of update
C17_Field(u, k) ==
    CASE k = "duration" -> IF Has(u.query_dict, "tbs")
                           THEN u.query_dict["tbs"] ELSE None
      [] k = "exact"    -> IF Has(u.query_dict, "nfpr")
                           THEN u.query_dict["nfpr"] ELSE None
      [] k = "keywords" -> u.keywords
      [] k = "lang"     -> IF Has(u.query_dict, "hl")
                           THEN u.query_dict["hl"] ELSE None
      [] k = "news"     -> IF Has(u.query_dict, "tbm")
                           THEN u.query_dict["tbm"] ELSE None
      [] k = "num"      -> u.num
      [] k = "site"     -> u.site
      [] k = "start"    -> u.start
      [] k = "tld"      -> u.tld

\* the keys of _query_dict that update can write
C17_UpdateWrites == {"tbs", "nfpr", "hl", "tbm"}

\* C17: update(options) changes only the fields whose keys are in options:
\* from every state, for every subset of the keys, each field whose key is
\* absent keeps its value, and so does every other query parameter.
C17_AbsentKeysKeepTheirValue ==
    \A opts \in Options :
        LET after == Update(google_url, opts)
        IN  /\ \A k \in OptionKeys \ DOMAIN opts :
                  C17_Field(after, k) = C17_Field(google_url, k)
            /\ \A k \in (DOMAIN google_url.query_dict) \ C17_UpdateWrites :
                  /\ Has(after.query_dict, k)
                  /\ after.query_dict[k] = google_url.query_dict[k]
            /\ DOMAIN after.query_dict \subseteq
                  (DOMAIN google_url.query_dict) \cup C17_UpdateWrites

\* after an update: site and exact flag are set, while keywords, country
\* code and news flag still are as the constructor left them
C17_Witness ==
    /\ lastOp.name = "update"
    /\ google_url.site = "s.io" /\ Has(google_url.query_dict, "nfpr")
    /\ google_url.keywords = Fresh.keywords /\ google_url.tld = None
    /\ ~Has(google_url.query_dict, "tbm")

-----------------------------------------------------------------------------
(* Properties of the parser.                                               *)

\* result_end has closed a result container: the handlers are back to root
C18_ContainerCloses == parser.scope = "result" /\ parser'.scope = "root"

C18_Step ==
    /\ \A i \in 1..Len(parser'.results) : parser'.results[i].url /= ""
    /\ (C18_ContainerCloses /\ parser.url = "")
           => parser'.results = parser.results
    /\ (C18_ContainerCloses /\ parser.url /= "")
           => /\ Len(parser'.results) = Len(parser.results) + 1
              /\ parser'.results[Len(parser'.results)].url = parser.url

\* C18: every Result of the result list carries a non-empty URL.  Whatever
\* the events fed, a result container that closes while no title-link URL
\* was captured in it adds no Result, and one that closes with a URL adds
\* one Result with that URL.
C18_ResultsCarryUrl == [][C18_Step]_vars

\* a Result was registered, and after it a second container, whose title
\* link wrapped no URL, was closed without one
C18_Witness ==
    /\ Len(parser.results) = 1
    /\ parser.results[1].url = "http://x"
    /\ parser.scope = "root"
    /\ parser.title_registered /\ parser.title = "t" /\ parser.url = ""

\* C19: once a well-nested page with an ignore-listed container inside a
\* result container is parsed, the result list is the one parsed from the
\* page without that container and all that it holds.
C19_IgnoredContainerIsAsIfRemoved ==
    fed = Len(page.events) => parser.results = pruned.results

\* the tag-name stack of tag holds no annotation of an open tag: it is
\* empty, or no tag of that name was ever opened
C20_Unmatched(p, tag) ==
    ~Has(p.tag_annotations, tag) \/ Len(p.tag_annotations[tag]) = 0

\* scope, registers and results of a parser
C20_Extracted(p) ==
    <<p.scope, p.capture, p.textbuf, p.index, p.results, p.title, p.url,
      p.abstract, p.metadata, p.sitelinks, p.current_sitelink,
      p.title_registered, p.abstract_registered, p.metadata_registered,
      p.autocorrected, p.suggested_spelling, p.filtered>>

C20_Step ==
    /\ parser'.error = ""
    /\ \A e \in EndTags :
          (C20_Unmatched(parser, e.tag) /\ parser' = Feed(parser, e))
              => C20_Extracted(parser') = C20_Extracted(parser)

\* C20: whatever start tags, end tags and text are fed, balanced or not, no
\* step of the parser raises an error, and an end tag whose tag-name stack
\* is empty or was never made leaves scope, registers and results as they
\* were.
C20_NeverRejects == [][C20_Step]_vars

\* the scopes other than ignore
C27_Scopes ==
    {"root", "result", "title", "abstract", "sitelink_table", "sitelink",
     "sitelink_title"}

\* C27: an ignore-listed start tag met in a scope S other than ignore puts
\* the parser in ignore scope; it stays there over the whole well-nested
\* content of the container, elements of the same tag name and further
\* ignore-listed containers included, and the end tag of the container puts
\* it back in scope S.  (pruned has handled the events before the container
\* and none of the container: its scope is S.)
C27_IgnoreScopeUntilMatchingEnd ==
    /\ pruned.scope \in C27_Scopes
    /\ fed \in page.from..(page.to - 1) => parser.scope = "ignore"
    /\ fed = page.to => parser.scope = pruned.scope

\* the container was met inside a sitelink's title, held another ignore-listed
\* container, and has just ended
C27_Witness ==
    /\ fed = page.to
    /\ page.events[page.from + 1] = Classed("div", "g-blk")
    /\ page.events[page.from + 3] = EndTag("div")
    /\ parser.scope = "sitelink_title"

\* the whole page was handed to the parser
C21_Parsed == fed = Len(page.events)

\* C21: the page that is one result container with a title container whose
\* link has href '/url?q=http%3A%2F%2Fexample.com%2Fx&sa=U' and text
\* 'Example', followed by an abstract container with the text 'An example
\* site.', parses to exactly one Result, with url 'http://example.com/x',
\* title 'Example', abstract 'An example site.' and no sitelinks.
C21_ExampleParsesToOneResult ==
    (C21_Parsed /\ page.events = ExampleContainer)
        => /\ Len(parser.results) = 1
           /\ parser.results[1].url = "http://example.com/x"
           /\ parser.results[1].title = "Example"
           /\ parser.results[1].abstract = "An example site."
           /\ parser.results[1].sitelinks = <<>>

\* that page was parsed, with the ua flag off
C21_Witness ==
    /\ C21_Parsed
    /\ page.events = ExampleContainer
    /\ ~parser.ua
    /\ Len(parser.results) = 1

\* the event handled in this step ends a result container
C22_ContainerEnds ==
    /\ page.events[fed'].kind = "end"
    /\ open[Len(open)].annotation = "result"

C22_Step ==
    /\ \A i \in 1..Len(parser'.results) :
          parser'.results[i].index = ToString(i)
    /\ \/ parser'.results = parser.results
       \/ /\ C22_ContainerEnds
          /\ Len(parser'.results) = Len(parser.results) + 1
          /\ SubSeq(parser'.results, 1, Len(parser.results)) = parser.results
          /\ parser'.results[Len(parser'.results)].url = parser.url

\* C22: the Results of one parse carry the indices '1', '2', ..., 'k' in
\* this order, and the list only grows at its end, by the Result of the
\* result container that ends: Results come in document order, and a
\* container skipped for lack of a URL uses up no index.
C22_IndicesConsecutive == [][C22_Step]_vars

\* two result containers with a container without URL between them were
\* parsed: the Result of the last one is the second
C22_Witness ==
    /\ fed = Len(page.events)
    /\ page.events = SubSeq(TwoContainers, 1, page.from - 1)
                        \o Element(Classed("div", "g"), <<>>)
                        \o SubSeq(TwoContainers, page.from, Len(TwoContainers))
    /\ page.events[page.from - 1] = EndTag("div")
    /\ Len(parser.results) = 2
    /\ parser.results[2].index = "2"
    /\ parser.results[2].url = "http://w"

\* the letters of the sub-indices, in order
C23_Letters == <<"a", "b", "c">>

\* index and lookup table of Result r are as its sitelinks demand
C23_Indexed(r) ==
    /\ Len(r.sitelinks) <= Len(C23_Letters)
    /\ \A k \in 1..Len(r.sitelinks) :
          /\ r.sitelinks[k].index = r.index \o C23_Letters[k]
          /\ r.sitelinks[k].index \in DOMAIN r.urltable
          /\ r.urltable[r.sitelinks[k].index] = r.sitelinks[k].url
    /\ DOMAIN r.urltable =
          {r.index} \cup {r.index \o C23_Letters[k] : k \in 1..Len(r.sitelinks)}
    /\ r.urltable[r.index] = r.url

\* a sitelink as it was before it had an index
C23_Bare(sitelink) == [sitelink EXCEPT !.index = ""]

C23_Step ==
    /\ \A i \in 1..Len(parser'.results) : C23_Indexed(parser'.results[i])
    /\ Len(parser'.results) > Len(parser.results)
          => LET r == parser'.results[Len(parser'.results)]
             IN  /\ Len(r.sitelinks) = Len(parser.sitelinks)
                 /\ \A k \in 1..Len(r.sitelinks) :
                       C23_Bare(r.sitelinks[k]) = parser.sitelinks[k]
    /\ (/\ parser.scope /= "root"
        /\ parser'.scope /= "root"
        /\ parser'.sitelinks /= parser.sitelinks)
          => parser'.sitelinks = Append(parser.sitelinks, parser.current_sitelink)

\* C23: the sitelinks of a Result carry the indices parent index + 'a', 'b',
\* 'c' in the order in which their cells ended, the order of the page, and
\* the Result's lookup table maps its own index to its URL and each of
\* these indices to the sitelink's URL, and holds nothing else; with no
\* sitelinks the table holds the Result's own index only.
C23_SitelinkIndices == [][C23_Step]_vars

\* a Result with three sitelinks, the two that were put in after the
\* page's own, next to the lookup table of four entries
C23_Witness ==
    /\ fed = Len(page.events)
    /\ Len(parser.results) = 1
    /\ Len(parser.results[1].sitelinks) = 3
    /\ parser.results[1].sitelinks[1].url = "http://y"
    /\ parser.results[1].sitelinks[3].index = "1c"
    /\ parser.results[1].urltable =
          ("1" :> "http://x") @@ ("1a" :> "http://y")
              @@ ("1b" :> "http://z") @@ ("1c" :> "http://v")

\* the scopes one level below scope s
C28_Children(s) ==
    CASE s = "root"           -> {"result"}
      [] s = "result"         -> {"title", "abstract", "sitelink_table"}
      [] s = "sitelink_table" -> {"sitelink"}
      [] s = "sitelink"       -> {"sitelink_title"}
      [] OTHER                -> {}

\* a new parser is in root scope, with no element open
C28_Start == parser.scope = "root" /\ open = <<>>

C28_Step ==
    LET e == page.events[fed']
    IN  /\ parser'.scope \in C27_Scopes \cup {"ignore"}
        /\ e.kind = "start" =>
               parser'.scope \in {parser.scope, "ignore"}
                                    \cup C28_Children(parser.scope)
        /\ e.kind = "data" => parser'.scope = parser.scope
        /\ e.kind = "end" => parser'.scope = open[Len(open)].scope
        /\ fed' = Len(page.events) => parser'.scope = "root"

\* C28: the parser is in one scope at a time and starts in root scope; a
\* start tag leaves the scope as it is or hands control to a scope one level
\* down (root > result > title | abstract | sitelink_table > sitelink >
\* sitelink_title) or to ignore; text leaves the scope as it is; the end tag
\* of an element hands control to the scope that was active when its start
\* tag was met; and after the last event of a well-nested page the parser is
\* in root scope.
C28_ScopesNest == C28_Start /\ [][C28_Step]_vars

\* the title container of a sitelink has just ended inside its cell: control
\* went from sitelink_title back to sitelink, four levels below root
C28_Witness ==
    /\ fed > 0
    /\ page.events[fed] = EndTag("h3")
    /\ parser.scope = "sitelink"
    /\ open /= <<>>
    /\ open[Len(open)].annotation = "sitelink"
    /\ open[Len(open)].scope = "sitelink_table"

\* the annotations a start handler returns when it starts a text capture
C29_Captures ==
    {"spell", "title_filetype", "title_link", "abstract_text",
     "abstract_gservices", "news_metadata", "news_abstract",
     "sitelink_abstract", "sitelink_title_link"}

\* the annotations a start handler returns when it hands control to a child
\* scope
C29_Descends ==
    {"result", "title", "abstract", "sitelink_table", "sitelink",
     "sitelink_title"} \cup {s \o "_ignored" : s \in C27_Scopes}

\* the end tag handled in this step receives the annotation recorded for its
\* start tag, and the tag-name stack loses that annotation
C29_Received ==
    LET e == page.events[fed']
        stack == parser.tag_annotations[e.tag]
    IN  e.kind = "end" =>
            /\ stack /= <<>>
            /\ stack[Len(stack)] = open[Len(open)].annotation
            /\ parser'.tag_annotations[e.tag] = SubSeq(stack, 1, Len(stack) - 1)

\* the end tag handled in this step undoes what its annotation stands for
C29_Undone ==
    LET e == page.events[fed']
        opened == open[Len(open)]
    IN  e.kind = "end" =>
            /\ opened.annotation \in C29_Captures => parser'.capture = "off"
            /\ opened.annotation \in C29_Descends =>
                   parser'.scope = opened.scope

\* C29: on a well-nested page the end handler receives the annotation that
\* the start handler recorded for the matching start tag, whatever was opened
\* and closed in between, and it carries out the action tied to that
\* annotation: an annotation of a started text capture stops the capture, an
\* annotation of a child scope hands control back.
C29_EndUndoesStart == [][C29_Received /\ C29_Undone]_vars

\* open element i is a title container met in a result container whose title
\* link was captured before
C30_LaterTitleContainer(i) ==
    /\ open[i].event.tag = "h3"
    /\ "r" \in Classes(open[i].event.attrs)
    /\ open[i].title_registered
    /\ open[i].scope /= "root"

\* C30: in a result container whose title link has been captured, the
\* events of a later title container, from its start tag to its end tag,
\* leave the title and the URL of the result as they are.
C30_TitleKept ==
    [][(\E i \in 1..Len(open) : C30_LaterTitleContainer(i))
          => (parser'.title = parser.title /\ parser'.url = parser.url)]_vars

\* C25: a Result made without the sitelinks argument is made without an
\* exception, and has no sitelinks.
C25_SitelinksOptional ==
    (made.called /\ ~made.sitelinks.given)
        => (made.raised = "" /\ made.result.sitelinks = <<>>)

\* the last call of fetch() returned
C24_Fetched == lastFetch.called /\ lastFetch.raised = ""

\* the keys of the Results and sitelinks of the session
C24_Keys ==
    UNION {{session.results[i].index}
              \cup {session.results[i].sitelinks[k].index :
                       k \in 1..Len(session.results[i].sitelinks)} :
           i \in 1..Len(session.results)}

\* the number of sitelinks of the first n Results of the session
RECURSIVE C24_SitelinkCount(_)
C24_SitelinkCount(n) ==
    IF n = 0 THEN 0
    ELSE C24_SitelinkCount(n - 1) + Len(session.results[n].sitelinks)

\* C24: once fetch() has returned, the lookup table of the session has one
\* entry per Result of this fetch, index -> URL, one entry per sitelink of
\* these Results, sub-index -> URL of the sitelink, and no other entry,
\* whatever the table held before.
C24_UrltableOfThisFetch ==
    C24_Fetched =>
        /\ DOMAIN session.urltable = C24_Keys
        /\ Cardinality(C24_Keys) =
               Len(session.results) + C24_SitelinkCount(Len(session.results))
        /\ \A i \in 1..Len(session.results) :
              LET r == session.results[i]
              IN  /\ session.urltable[r.index] = r.url
                  /\ \A k \in 1..Len(r.sitelinks) :
                        session.urltable[r.sitelinks[k].index]
                            = r.sitelinks[k].url

\* a fetch with one Result and its sitelink came after a fetch with two
\* Results
C24_Witness ==
    /\ C24_Fetched
    /\ DOMAIN lastFetch.was.urltable = {"1", "2"}
    /\ DOMAIN session.urltable = {"1", "1a"}
    /\ session.urltable["1a"] = "http://y"

\* the headings with a spelling link of text `text` and a marker of the
\* original spelling in root scope, neither of them one of the hidden ones
C26_Corrected(text) ==
    UNION {{l \o SpellOrig(""), SpellOrig("") \o l} : l \in SpellLinks(text)}

\* the texts of the spelling links of the page of the last fetch, if it has
\* both a spelling link and a marker
C26_Suggested ==
    {text \in SpellTexts :
        \E h \in C26_Corrected(text), base \in SessionBases :
            page.events = h \o base}

C31_AbstractKept ==
    [][(parser.scope /= "root" /\ parser.abstract /= "")
          => parser'.abstract = parser.abstract]_vars

\* C32: a title link whose href is a redirect wrapper gives the Result the
\* percent-decoded value of the q parameter as its URL, whether or not the
\* sa parameter follows and whatever other parameters follow; an href
\* without q parameter is the URL as it is written.
C32_UrlIsDecodedTarget ==
    C21_Parsed =>
        /\ \A target \in WrappedTargets, tail \in Tails :
              page.events = Container(TextLink(Wrapped(target, tail), "T"), <<>>)
                  => /\ Len(parser.results) = 1
                     /\ parser.results[1].url = target.plain
        /\ \A h \in PlainHrefs :
              page.events = Container(TextLink(h, "T"), <<>>)
                  => /\ Len(parser.results) = 1
                     /\ parser.results[1].url = h

\* open element o is a same-site search link met in title scope
C33_SearchLink(o) ==
    /\ o.scope = "title"
    /\ o.event.tag = "a"
    /\ Has(o.event.attrs, "href")
    /\ StartsWith(o.event.attrs["href"], "/search")

C33_Step ==
    /\ (page.events[fed'].kind = "start" /\ C33_SearchLink(open'[Len(open')]))
           => /\ parser'.url = parser.url
              /\ parser'.title = parser.title
              /\ parser'.title_registered = parser.title_registered
              /\ parser'.capture = parser.capture
              /\ parser'.textbuf = parser.textbuf
              /\ open'[Len(open')].annotation = None
    /\ (\E i \in 1..Len(open) : C33_SearchLink(open[i]))
           => /\ parser'.url = parser.url
              /\ parser'.title = parser.title
              /\ parser'.capture = parser.capture
    /\ fed' = Len(page.events) =>
          /\ \A rest \in {<<>>, AbstractContainer("ab")} :
                page.events = Container(TextLink(SearchHref, "T"), rest)
                    => parser'.results = <<>>
          /\ page.events
                 = Container(TextLink(SearchHref, "N") \o TextLink("http://x", "T"),
                             <<>>)
                => /\ Len(parser'.results) = 1
                   /\ parser'.results[1].url = "http://x"
                   /\ parser'.results[1].title = "T"

\* C33: a link in a title container whose href starts with '/search' is
\* passed over: its start tag leaves URL, title, text buffer and data handler
\* as they are and records no annotation, and up to its end tag URL, title
\* and data handler stay as they are; a result container whose only title
\* link is such a link gives no Result, and a link to another site that
\* follows it in the title container gives URL and title.
C33_SearchLinkSkipped == [][C33_Step]_vars

\* the page with a search link before a link to another site was parsed
C33_Witness ==
    /\ C21_Parsed
    /\ page.events
           = Container(TextLink(SearchHref, "N") \o TextLink("http://x", "T"), <<>>)
    /\ Len(parser.results) = 1
    /\ parser.results[1].title = "T"

\* the fields of Result r and of its sitelinks that hold text
C34_Fields(r) ==
    {r.title, r.url, r.abstract}
        \cup UNION {{r.sitelinks[k].title, r.sitelinks[k].url,
                     r.sitelinks[k].abstract} : k \in 1..Len(r.sitelinks)}

C34_Pages ==
    [rest \in {<<>>, AbstractContainer("ab")} |->
        Container(FileType \o TextLink("http://x", "T"), rest)]

C34_Second == Container(TextLink("http://w", "W"), AbstractContainer("cd"))

C35_Urls(sitelinks) == [k \in 1..Len(sitelinks) |-> sitelinks[k].url]

\* the sitelink table of the page of three cells, the one in the middle
\* being cell
C35_Page(cell) ==
    Container(TextLink("http://m", "M"),
              Table(LinkCell("http://y", "S") \o cell \o LinkCell("http://z", "Z")))

C35_Step ==
    LET e == page.events[fed']
        top == open[Len(open)]
        cellEnds == e.kind = "end" /\ top.annotation = "sitelink"
    IN  /\ \A i \in 1..Len(parser'.results) :
              \A k \in 1..Len(parser'.results[i].sitelinks) :
                  parser'.results[i].sitelinks[k].url /= ""
        /\ \A k \in 1..Len(parser'.sitelinks) : parser'.sitelinks[k].url /= ""
        /\ C35_Urls(parser'.sitelinks) /= C35_Urls(parser.sitelinks)
              => \/ /\ e.kind = "start"
                    /\ parser.scope = "root"
                    /\ parser'.sitelinks = <<>>
                 \/ /\ cellEnds
                    /\ parser'.sitelinks
                           = Append(parser.sitelinks, parser.current_sitelink)
        /\ (cellEnds /\ parser.current_sitelink.url = "")
              => parser'.sitelinks = parser.sitelinks
        /\ Len(parser'.results) > Len(parser.results)
              => C35_Urls(parser'.results[Len(parser'.results)].sitelinks)
                    = C35_Urls(parser.sitelinks)
        /\ fed' = Len(page.events)
              => \A cell \in EmptyCells :
                    page.events = C35_Page(cell)
                        => C35_Urls(parser'.results[1].sitelinks)
                              = <<"http://y", "http://z">>

\* C35: the sitelink list of the result container at hand grows only when a
\* cell of the sitelink table ends, by the one sitelink of that cell and at
\* its end, and only if that sitelink has a URL; an emitted Result has the
\* sitelinks of the list, in this order, and every one of them has a URL.
C35_SitelinksCarryUrl == [][C35_Step]_vars

\* the table with a text-only cell between two cells with links was parsed
C35_Witness ==
    /\ C21_Parsed
    /\ page.events = C35_Page(Cell(<<Text("X")>>))
    /\ Len(parser.results) = 1
    /\ C35_Urls(parser.results[1].sitelinks) = <<"http://y", "http://z">>

\* what the title link with href h and text 'T' gives as the only link of
\* the title container of a result container: no Result, or URL and title
C36_InTitle(h, ua) ==
    LET p == FeedAll(NewParser(FALSE, ua), Container(TextLink(h, "T"), <<>>))
    IN  [r \in 1..Len(p.results) |-> <<p.results[r].url, p.results[r].title>>]

\* C36: a link in the title container of a sitelink cell gives the sitelink
\* the URL and title that the same link gives a Result in the title
\* container of a result container, and gives no sitelink where it gives no
\* Result.
C36_SitelinkTitleAsTitle ==
    C21_Parsed =>
        \A h \in LinkHrefs :
            page.events = Container(TextLink("http://m", "M"),
                                    Table(LinkCell(h, "T")))
                => /\ Len(parser.results) = 1
                   /\ [k \in 1..Len(parser.results[1].sitelinks) |->
                          <<parser.results[1].sitelinks[k].url,
                            parser.results[1].sitelinks[k].title>>]
                         = C36_InTitle(h, parser.ua)

\* C37: each time a start tag takes the parser from root scope to result
\* scope, the text buffer is empty and no text is being captured.
C37_CleanOnEntry ==
    [][(parser.scope = "root" /\ parser'.scope = "result")
          => (parser'.textbuf = "" /\ parser'.capture = "off")]_vars

\* the connection is where a fetch_page call found it: the call has put its
\* first GET on the wire and has followed no redirect to another host so far
C39_FirstGetSent == pc /= "idle" /\ hist.gets >= 1

\* C39: every fetch sends its first request to the host the GoogleUrl object
\* resolves, the hostname GooglerCmd.__init__ made the connection with, also
\* when an earlier fetch has followed a redirect to another host.
C39_FetchGoesToHostname ==
    C39_FirstGetSent => hist.firstHost = Hostname(google_url)

\* the page the session holds: the fields fetch() writes
C38_Held(s) == [results |-> s.results, urltable |-> s.urltable]

\* what the session holds once fetch() has parsed page pg
C38_HeldOf(pg, ua) ==
    C38_Held(Fetched(NewSession,
                     FeedAll(NewParser(News(google_url), ua), pg.events)))

\* C38: once the loop holds a page, after every command the results and the
\* lookup table of the session are those of a page of the GoogleUrl's
\* current target, failed fetches included.
C38_HeldPageIsCurrent ==
    loop.shown /= NoFetch =>
        /\ loop.shown = Relative(google_url)
        /\ \E pg \in PagesAt(google_url) :
              C38_Held(session) = C38_HeldOf(pg, parser.ua)

\* the command cmd is read at the first page of a session with keywords
C40_AtFirstPage(cmd) ==
    /\ loop.pc = "prompt" /\ loop'.cmd = cmd
    /\ KeywordsTruthy(google_url.keywords)
    /\ google_url.start = 0

\* the boundary is absorbed: nothing raised, no fetch, GoogleUrl and session
\* as they were, the loop back at its prompt
C40_Absorbed ==
    /\ loop'.raised = "" /\ loop'.fetch = NoFetch
    /\ google_url' = google_url /\ session' = session
    /\ loop'.pc = "prompt"

\* the command 'p' at the first page is absorbed
C40_PreviousAbsorbed == [][C40_AtFirstPage("p") => C40_Absorbed]_vars

\* C40: the command 'f' read while start = 0 is absorbed as the command 'p'
\* is: no fetch is made, the GoogleUrl and the session stay as they were,
\* and the loop goes on to read the next command.
C40_FirstAbsorbed == [][C40_AtFirstPage("f") => C40_Absorbed]_vars

====
